---- MODULE Spec2Model ----
(***************************************************************************)
(* Proof-of-Training consensus simulation (gwechta/proof-of-training).     *)
(*                                                                         *)
(* The model follows the Python sources: one Employee process per node     *)
(* (src/employee/employee.py), the Broadcaster relay                       *)
(* (src/network/broadcaster.py), the UsersPuppeteer transaction generator  *)
(* (src/network/users_puppeteer.py), the two books, the chain and the      *)
(* message classes.  A multiprocessing Pipe is a FIFO sequence.  A sha256  *)
(* digest is modelled by its input (an injective hash); an Ed25519         *)
(* signature by the pair of the signing key and the signed bytes.          *)
(***************************************************************************)
EXTENDS Integers, Sequences, FiniteSets, TLC

(***************************************************************************)
(* Tunables of src/simulation/constants.py, scaled down so that the state  *)
(* space is finite and small (the source values are 11, 3, 6, 3 and 100).  *)
(***************************************************************************)
EMPLOYEES_NUM == 2
STAKEHOLDERS_NUM == 2
TARGET_BLOCKCHAIN_LENGTH == 3
EMPLOYER_CONFIDENCE == 2
MAX_TRANSACTIONS_NUM == 1
\* The coinstakes are powers of two, 2**252 and 2**251, kept by their exponents.
TD_COINSTAKE == 252
BH_COINSTAKE == 251

\* The wall clock, datetime.now() to the second, runs over 0..MaxClock.
MaxClock == 1
\* The puppeteer draws sender, amount and receiver from 1..MaxBody.
MaxBody == 1

\* The books are exercised over the stages 0..MaxStage, with lists of at most
\* MaxEntries declarations or signatures.
MaxStage == 1
MaxEntries == 2
\* The probes of the PoS waiting mechanism are followed over the seconds 0..MaxSeconds.
MaxSeconds == 5

Names == 1..EMPLOYEES_NUM
Bodies == 1..MaxBody
Stages == 0..MaxStage

VARIABLES
    emp,             \* emp[n]: the fields of Employee n and its position in simulate()
    conn_e,          \* conn_e[n]: Pipe, employee n -> broadcaster
    conn_b,          \* conn_b[n]: Pipe, broadcaster -> employee n
    conn_up,         \* Pipe, users puppeteer -> broadcaster
    transactions_num,\* UsersPuppeteer.maneuver_users: transactions sent so far
    bc,              \* the Broadcaster's fields and whether its loop has ended
    simulation_conn, \* Pipe, broadcaster -> simulation
    clock            \* the wall clock of the machine all the processes run on

vars == <<emp, conn_e, conn_b, conn_up, transactions_num, bc, simulation_conn,
          clock>>

(***************************************************************************)
(* Python's None.                                                          *)
(***************************************************************************)
None == [none |-> TRUE]

(***************************************************************************)
(* src/network/cryptographic_utils.py                                      *)
(***************************************************************************)
\* private_key.sign(message): the key pair of employee n is named n.
sign_message(private_key, message) == [by |-> private_key, over |-> message]

\* public_key.verify(signature, message): True iff made over these bytes by this key.
verify_signature(public_key, message, signature) ==
    /\ signature # None
    /\ signature.by = public_key
    /\ signature.over = message

(***************************************************************************)
(* src/simulation/hashable_serializable_message.py                         *)
(***************************************************************************)
\* pickle.dumps(self) with the signature set to None.
dumps_without_sig(m) == [m EXCEPT !.signature = None]

\* sha256 of dumps_without_sig(), modelled by its input.
calculate_hash(m) == dumps_without_sig(m)

\* The first 8 hex characters of the hash.
get_id(m) == calculate_hash(m)

\* sign() signs pickle.dumps(self), the message as it is (signature included).
sign(m, private_key) == [m EXCEPT !.signature = sign_message(private_key, m)]

set_timestamp(m, timestamp) == [m EXCEPT !.timestamp = timestamp]

\* src/network/cryptographic_utils.py: count_leading_zeros of a sha256 digest.  The
\* digest being modelled by its input, the number of its leading zero bits is a
\* function of the input: the model takes one that goes by the second of the
\* timestamp, (6, 5, 5, 0, 4) over every five seconds.
count_leading_zeros(h) ==
    CASE h.timestamp % 5 = 0 -> 6
      [] h.timestamp % 5 \in {1, 2} -> 5
      [] h.timestamp % 5 = 3 -> 0
      [] OTHER -> 4

\* src/blockchain/blockchain_utils.py: 256 - math.log2(coinstake)
pos_td_difficulty(coinstake) == 256 - coinstake

pos_bh_difficulty(coinstake) == 256 - coinstake

(***************************************************************************)
(* src/model/model.py                                                      *)
(***************************************************************************)
\* A stage identifier that leaves the iteration out: "<id>" alone.
get_model_id(current_iteration) == 0

\* get_id_s(): "<id>:<current_iteration>", the model id being one constant.
get_id_s(current_iteration) == current_iteration

\* The training secret: every node trains the same seeded model on the same
\* batch, so the secret is a function of the iteration.
train_one_batch(current_iteration) == [secret |-> current_iteration]

(***************************************************************************)
(* src/pos_messages/training_declarations_book.py                          *)
(***************************************************************************)
\* An add that appends the declaration whether the stage is open or closed.
add_training_declaration_always(book, td) ==
    LET id_s == td.id_s
        b1 == IF id_s \in DOMAIN book THEN book
              ELSE [s \in DOMAIN book \cup {id_s} |->
                      IF s = id_s THEN [open |-> TRUE, training_declarations |-> <<>>]
                      ELSE book[s]]
    IN  [b1 EXCEPT ![id_s].training_declarations = Append(@, td)]

add_training_declaration_to_book(book, td) ==
    LET id_s == td.id_s
        b1 == IF id_s \in DOMAIN book THEN book
              ELSE [s \in DOMAIN book \cup {id_s} |->
                      IF s = id_s THEN [open |-> TRUE, training_declarations |-> <<>>]
                      ELSE book[s]]
    IN  IF b1[id_s].open = FALSE THEN b1
        ELSE [b1 EXCEPT ![id_s].training_declarations = Append(@, td)]

get_training_declarations(book, id_s) == book[id_s].training_declarations

get_training_declarations_num(book, id_s) ==
    IF id_s \in DOMAIN book THEN Len(book[id_s].training_declarations) ELSE 0

td_book_close(book, id_s) == [book EXCEPT ![id_s].open = FALSE]

(***************************************************************************)
(* src/poa_messages/stakeholder_signatures_book.py                         *)
(***************************************************************************)
\* An add that opens the stage of the signature again and books the signature.
add_signature_and_reopen(book, ss, roy) ==
    LET id_s == ss.block_header.id_s
        id_bh == get_id(ss.block_header)
        b1 == IF id_s \in DOMAIN book THEN [book EXCEPT ![id_s].open = TRUE]
              ELSE [s \in DOMAIN book \cup {id_s} |->
                      IF s = id_s
                      THEN [open |-> TRUE,
                            sh_info |-> [h \in {id_bh} |-> [sigs |-> <<>>, roy |-> roy]]]
                      ELSE book[s]]
        b2 == IF id_bh \in DOMAIN b1[id_s].sh_info THEN b1
              ELSE [b1 EXCEPT ![id_s].sh_info =
                      [h \in DOMAIN @ \cup {id_bh} |->
                          IF h = id_bh THEN [sigs |-> <<>>, roy |-> roy] ELSE @[h]]]
    IN  [b2 EXCEPT ![id_s].sh_info[id_bh].sigs = Append(@, ss)]

add_signature_to_book(book, ss, roy) ==
    LET id_s == ss.block_header.id_s
        id_bh == get_id(ss.block_header)
        b1 == IF id_s \in DOMAIN book THEN book
              ELSE [s \in DOMAIN book \cup {id_s} |->
                      IF s = id_s
                      THEN [open |-> TRUE,
                            sh_info |-> [h \in {id_bh} |-> [sigs |-> <<>>, roy |-> roy]]]
                      ELSE book[s]]
        b2 == IF id_bh \in DOMAIN b1[id_s].sh_info THEN b1
              ELSE [b1 EXCEPT ![id_s].sh_info =
                      [h \in DOMAIN @ \cup {id_bh} |->
                          IF h = id_bh THEN [sigs |-> <<>>, roy |-> roy] ELSE @[h]]]
    IN  IF b2[id_s].open = FALSE THEN b2
        ELSE [b2 EXCEPT ![id_s].sh_info[id_bh].sigs = Append(@, ss)]

get_signatures_for_block_header(book, id_s, id_bh) ==
    IF id_s \in DOMAIN book /\ id_bh \in DOMAIN book[id_s].sh_info
    THEN book[id_s].sh_info[id_bh].sigs
    ELSE <<>>

\* A count of the different signatures of the list.
get_distinct_signatures_num(book, id_s, id_bh) ==
    LET sigs == get_signatures_for_block_header(book, id_s, id_bh)
    IN  Cardinality({sigs[i] : i \in 1..Len(sigs)})

get_signatures_num(book, id_s, id_bh) ==
    Len(get_signatures_for_block_header(book, id_s, id_bh))

\* A close that leaves the book as it is.
ss_book_keep(book, id_s) == book

ss_book_close(book, id_s) ==
    IF id_s \in DOMAIN book THEN [book EXCEPT ![id_s].open = FALSE] ELSE book

ss_book_is_open(book, id_s) ==
    IF id_s \in DOMAIN book THEN book[id_s].open ELSE TRUE

(***************************************************************************)
(* src/network/transaction.py, src/users/*.py                              *)
(***************************************************************************)
\* A transfer made by the users puppeteer: id is the sha256 of the sender, amount,
\* receiver and timestamp; body is what the dataclass repr shows (sender, amount,
\* receiver).  employee_name is None until a node stamps a copy of it.
Transaction(id, body, employee_name) ==
    [id |-> id, body |-> body, employee_name |-> employee_name]

\* Blockchain.append_genesis_block: "Genesis A" pays 1 to "Genesis B", once per employee.
GenesisTransaction(employee_name) == Transaction(0, 0, employee_name)

\* CoinbaseUser(block_index).create_transaction(receiver): the amount is
\* coinbase_reward(block_index), a function of block_index.
CoinbaseTransaction(block_index, receiver) ==
    [sender |-> "Coinbase User", amount |-> block_index, receiver |-> receiver,
     employee_name |-> receiver]

\* Transaction.__eq__ / __hash__: by id.
tx_eq(t1, t2) == t1.id = t2.id

\* str(transaction), the dataclass repr: sender, amount and receiver only.
str_transaction(t) ==
    IF t = None THEN None
    ELSE IF "body" \in DOMAIN t THEN [body |-> t.body]
    ELSE [sender |-> t.sender, amount |-> t.amount, receiver |-> t.receiver]

(***************************************************************************)
(* The message classes.                                                    *)
(***************************************************************************)
\* src/pos_messages/training_declaration.py
TrainingDeclaration(id_s, timestamp, training_secret_commitment, public_key) ==
    [id_s |-> id_s, public_key |-> public_key, timestamp |-> timestamp,
     training_secret_commitment |-> training_secret_commitment,
     signature |-> None]

\* src/pos_messages/block_header.py: BlockHeader.__init__
BlockHeader(id_s, timestamp, parent_block_hash, block_index, training_secret, public_key, training_declarations) ==
    [id_s |-> id_s, public_key |-> public_key, timestamp |-> timestamp,
     parent_block_hash |-> parent_block_hash, block_index |-> block_index,
     training_secret |-> training_secret,
     training_declarations |-> training_declarations,
     signature |-> None]

\* A check of the included declarations that every header passes.
check_no_declarations(bh) == TRUE

\* src/pos_messages/block_header.py: check_included_training_declarations
check_included_training_declarations(bh) ==
    \A i \in 1..Len(bh.training_declarations) :
        LET td == bh.training_declarations[i]
        IN  verify_signature(td.public_key, bh.training_secret,
                             td.training_secret_commitment)

\* src/poa_messages/stakeholder_signature.py
StakeholderSignature(block_header, public_key, signature) ==
    [block_header |-> block_header, public_key |-> public_key,
     signature |-> signature]

\* src/poa_messages/wrapped_block.py: WrappedBlock.__init__; id_s is the stage of
\* the model of the node that wraps.
WrappedBlock(id_s, employee_user, public_key, transactions, stakeholders_signatures, block_header) ==
    [id_s |-> id_s, public_key |-> public_key, block_header |-> block_header,
     coinbase_transaction |->
         CoinbaseTransaction(block_header.block_index, employee_user),
     transactions |-> transactions,
     stakeholders_signatures |-> stakeholders_signatures,
     signature |-> None]

\* src/poa_messages/wrapped_block.py: each signature is checked against the header
\* the signature object itself carries.
verify_stakeholder_signatures(wb) ==
    \A i \in 1..Len(wb.stakeholders_signatures) :
        LET ss == wb.stakeholders_signatures[i]
        IN  verify_signature(ss.public_key, dumps_without_sig(ss.block_header),
                             ss.signature)

\* A check of the difficulty that every declaration passes.
check_any_td(td) == TRUE

\* src/pos_messages/pos_message.py
check_meeting_pos_td_difficulty(td) ==
    count_leading_zeros(calculate_hash(td)) >= pos_td_difficulty(TD_COINSTAKE)

check_meeting_pos_bh_difficulty(bh) ==
    count_leading_zeros(calculate_hash(bh)) >= pos_bh_difficulty(BH_COINSTAKE)

\* src/network/message.py
Message(msg_type, content) == [msg_type |-> msg_type, content |-> content]

(***************************************************************************)
(* src/blockchain/block.py                                                 *)
(***************************************************************************)
\* str(block_header): the dataclass repr of PoSMessage shows id_s and timestamp.
str_block_header(bh) ==
    IF bh = None THEN None ELSE [id_s |-> bh.id_s, timestamp |-> bh.timestamp]

\* str(signature): the dataclass repr of StakeholderSignature shows block_header_id.
str_stakeholder_signature(ss) == [block_header_id |-> get_id(ss.block_header)]

\* Block.calculate_hash: the conditional expressions bind weaker than +, so the
\* data is  (index .. transactions) if transactions else (signatures if signatures
\* else "").
block_calculate_hash(b) ==
    IF b.transactions # <<>>
    THEN [index |-> b.index, previous_hash |-> b.previous_hash,
          timestamp |-> b.timestamp,
          block_header |-> str_block_header(b.block_header),
          coinbase_transaction |-> str_transaction(b.coinbase_transaction),
          transactions |-> [i \in 1..Len(b.transactions) |->
                               str_transaction(b.transactions[i])]]
    ELSE IF b.stakeholders_signatures # <<>>
    THEN [signatures |-> [i \in 1..Len(b.stakeholders_signatures) |->
                             str_stakeholder_signature(b.stakeholders_signatures[i])]]
    ELSE [empty |-> TRUE]

\* Block.__init__: the hash is computed on construction.
Block(index, previous_hash, timestamp, block_header, coinbase_transaction, transactions, stakeholders_signatures) ==
    LET b == [index |-> index, previous_hash |-> previous_hash,
              timestamp |-> timestamp, block_header |-> block_header,
              coinbase_transaction |-> coinbase_transaction,
              transactions |-> transactions,
              stakeholders_signatures |-> stakeholders_signatures]
    IN  [index |-> index, previous_hash |-> previous_hash,
         timestamp |-> timestamp, block_header |-> block_header,
         coinbase_transaction |-> coinbase_transaction,
         transactions |-> transactions,
         stakeholders_signatures |-> stakeholders_signatures,
         hash |-> block_calculate_hash(b)]

(***************************************************************************)
(* src/blockchain/blockchain.py: a Blockchain is [chain, all_transactions]. *)
(***************************************************************************)
get_chain_length(blockchain) == Len(blockchain.chain)

get_latest_block(blockchain) == blockchain.chain[Len(blockchain.chain)]

\* An add_block that keeps the transactions of the newest block alone.
add_block_latest(blockchain, new_block) ==
    [chain |-> Append(blockchain.chain, new_block),
     all_transactions |-> new_block.transactions]

add_block(blockchain, new_block) ==
    [chain |-> Append(blockchain.chain, new_block),
     all_transactions |-> blockchain.all_transactions \o new_block.transactions]

\* A genesis block with the transaction of the first employee alone.
append_genesis_block_of_one(blockchain, employees_names) ==
    add_block(blockchain,
              Block(0, [zero |-> TRUE], 0, None, None,
                    <<GenesisTransaction(employees_names[1])>>, <<>>))

\* previous_hash is b"0"; the timestamp is the fixed string of the Apollo landing.
\* stakeholders_signatures is None, which the hash treats as the empty list, <<>>.
append_genesis_block(blockchain, employees_names) ==
    add_block(blockchain,
              Block(0, [zero |-> TRUE], 0, None, None,
                    [i \in 1..Len(employees_names) |->
                        GenesisTransaction(employees_names[i])],
                    <<>>))

\* An append that takes the block's index and previous_hash from the header of
\* the wrapped block instead of the local tip.
append_by_header(blockchain, wrapped_block, timestamp) ==
    add_block(blockchain,
              Block(wrapped_block.block_header.block_index,
                    wrapped_block.block_header.parent_block_hash, timestamp,
                    wrapped_block.block_header,
                    wrapped_block.coinbase_transaction,
                    wrapped_block.transactions,
                    wrapped_block.stakeholders_signatures))

\* The block takes its index and previous_hash from the local tip whatever the
\* header says (the fork branch only logs); timestamp is the wall clock.
\* An append that leaves the chain as it is when the header of the wrapped block
\* names a parent other than the tip.
append_unless_fork(blockchain, wrapped_block, timestamp) ==
    LET latest_block == get_latest_block(blockchain)
    IN  IF wrapped_block.block_header.parent_block_hash # latest_block.hash
        THEN blockchain
        ELSE add_block(blockchain,
                       Block(latest_block.index + 1, latest_block.hash, timestamp,
                             wrapped_block.block_header,
                             wrapped_block.coinbase_transaction,
                             wrapped_block.transactions,
                             wrapped_block.stakeholders_signatures))

append_fitted_wrapped_block(blockchain, wrapped_block, timestamp) ==
    LET latest_block == get_latest_block(blockchain)
    IN  add_block(blockchain,
                  Block(latest_block.index + 1, latest_block.hash, timestamp,
                        wrapped_block.block_header,
                        wrapped_block.coinbase_transaction,
                        wrapped_block.transactions,
                        wrapped_block.stakeholders_signatures))

is_chain_valid(blockchain) ==
    \A i \in 2..Len(blockchain.chain) :
        /\ blockchain.chain[i].hash = block_calculate_hash(blockchain.chain[i])
        /\ blockchain.chain[i].previous_hash = blockchain.chain[i - 1].hash

\* The names of a set, in the order tuple(population) lists them.
RECURSIVE SetToSeq(_)
SetToSeq(S) ==
    IF S = {} THEN <<>>
    ELSE LET m == CHOOSE x \in S : \A y \in S : x <= y
         IN  <<m>> \o SetToSeq(S \ {m})

\* random.seed(rand_source): the generator's state is a function of the hash; the
\* model reads it off the timestamp, the one free input of a header's hash.
seed(rand_source) == rand_source.timestamp

\* A draw that takes the names in the order of all_transactions, repeated as they
\* are there, instead of the set of the distinct names.
follow_the_transactions(blockchain, rand_source) ==
    LET population == [i \in 1..Len(blockchain.all_transactions) |->
                          blockchain.all_transactions[i].employee_name]
        n == Len(population)
    IN  [i \in 1..STAKEHOLDERS_NUM |->
            population[((seed(rand_source) + i) % n) + 1]]

\* random.sample(possible_stakeholders, k=STAKEHOLDERS_NUM): k distinct names, a
\* function of the seed and of the population.
follow_the_coin(blockchain, rand_source) ==
    LET possible_stakeholders ==
            {blockchain.all_transactions[i].employee_name :
                i \in 1..Len(blockchain.all_transactions)}
        population == SetToSeq(possible_stakeholders)
        n == Len(population)
    IN  [i \in 1..STAKEHOLDERS_NUM |->
            population[((seed(rand_source) + i - 1) % n) + 1]]

(***************************************************************************)
(* src/employee/employee.py.  The operators below take the fields e of an  *)
(* Employee named name and return the new fields with the messages sent,   *)
(* [e |-> ..., out |-> <<...>>].                                           *)
(***************************************************************************)
am_i_roy_stakeholder(e, name, block_header) ==
    LET stakeholders == follow_the_coin(e.blockchain, calculate_hash(block_header))
    IN  name = stakeholders[STAKEHOLDERS_NUM]

\* A stamping that works on the transactions of the pool, not on copies.
pending_stamped_in_place(e, name) ==
    [i \in 1..Len(e.pending_transactions) |->
        [e.pending_transactions[i] EXCEPT !.employee_name = name]]

\* The pool after _get_pending_transactions_and_set_employee: the loop stamps the
\* transactions of the copy.deepcopy, so the pool is the list it was.
pending_after_set_employee(e, name) == e.pending_transactions

\* copy.deepcopy of the pending pool, every copy stamped with the employee's name.
get_pending_transactions_and_set_employee(e, name) ==
    [i \in 1..Len(e.pending_transactions) |->
        [e.pending_transactions[i] EXCEPT !.employee_name = name]]

\* The signatures are looked up under the stage of the employee's own model.
create_wrapped_block(e, name, block_header) ==
    LET active_transactions == get_pending_transactions_and_set_employee(e, name)
        stakeholder_signatures ==
            get_signatures_for_block_header(e.stakeholder_signatures_book,
                                            get_id_s(e.current_iteration),
                                            get_id(block_header))
    IN  WrappedBlock(get_id_s(e.current_iteration), name, name,
                     active_transactions, stakeholder_signatures, block_header)

\* A purge that removes nothing.
remaining_all(pending_transactions, reg_trans) ==
    {pending_transactions[i] : i \in 1..Len(pending_transactions)}

\* The transactions left by set(pending) - set(reg_trans), membership by id.
remaining_transactions(pending_transactions, reg_trans) ==
    {pending_transactions[i] : i \in
        {j \in 1..Len(pending_transactions) :
            \A k \in 1..Len(reg_trans) :
                ~tx_eq(pending_transactions[j], reg_trans[k])}}

\* list(result_trans_set): the set in some order.
Orders(S) ==
    {q \in [1..Cardinality(S) -> S] : \A x \in S : \E i \in DOMAIN q : q[i] = x}

\* order is the order list() gives the remaining set.
remove_served_trans_from_pending_trans(e, reg_trans, order) ==
    [e EXCEPT !.pending_transactions = order]

\* A Normal procedure that also raises the restart flag.
perform_normal_and_restart(e, name, block_header) ==
    LET signature == sign_message(name, dumps_without_sig(block_header))
        stakeholder_signature == StakeholderSignature(block_header, name, signature)
        is_roy == am_i_roy_stakeholder(e, name, stakeholder_signature.block_header)
    IN  [e |-> [e EXCEPT !.stakeholder_signatures_book =
                   add_signature_to_book(@, stakeholder_signature, is_roy),
                         !.protocol_restart_flag = TRUE],
         out |-> <<Message("STAKEHOLDER_SIGNATURE", stakeholder_signature)>>]

perform_normal_stakeholder_procedure(e, name, block_header) ==
    LET signature == sign_message(name, dumps_without_sig(block_header))
        stakeholder_signature == StakeholderSignature(block_header, name, signature)
        is_roy == am_i_roy_stakeholder(e, name, stakeholder_signature.block_header)
    IN  [e |-> [e EXCEPT !.stakeholder_signatures_book =
                   add_signature_to_book(@, stakeholder_signature, is_roy)],
         out |-> <<Message("STAKEHOLDER_SIGNATURE", stakeholder_signature)>>]

\* now is the wall clock of the append, order the order of the purged pool.
perform_roy_stakeholder_procedure(e, name, block_header, now, order) ==
    LET wrapped_block == sign(create_wrapped_block(e, name, block_header), name)
        e1 == [e EXCEPT !.blockchain =
                  append_fitted_wrapped_block(@, wrapped_block, now)]
        e2 == remove_served_trans_from_pending_trans(e1, wrapped_block.transactions,
                                                     order)
    IN  [e |-> [e2 EXCEPT !.protocol_restart_flag = TRUE],
         out |-> <<Message("WRAPPED_BLOCK", wrapped_block)>>]

\* A check of the role that finalizes at once when the employee is Roy, without
\* waiting for the signatures.
check_type_and_finalize(e, name, block_header) ==
    LET stakeholders == follow_the_coin(e.blockchain, calculate_hash(block_header))
    IN  IF \E i \in 1..(STAKEHOLDERS_NUM - 1) : stakeholders[i] = name
        THEN perform_normal_stakeholder_procedure(e, name, block_header)
        ELSE IF stakeholders[STAKEHOLDERS_NUM] = name
        THEN perform_roy_stakeholder_procedure(e, name, block_header, 0,
                                               e.pending_transactions)
        ELSE [e |-> e, out |-> <<>>]

\* A check of the role in which every member of the committee, Roy too, signs.
check_type_all_sign(e, name, block_header) ==
    LET stakeholders == follow_the_coin(e.blockchain, calculate_hash(block_header))
    IN  IF \E i \in 1..STAKEHOLDERS_NUM : stakeholders[i] = name
        THEN perform_normal_stakeholder_procedure(e, name, block_header)
        ELSE [e |-> e, out |-> <<>>]

check_type_of_stakeholder(e, name, block_header) ==
    LET stakeholders == follow_the_coin(e.blockchain, calculate_hash(block_header))
    IN  IF \E i \in 1..(STAKEHOLDERS_NUM - 1) : stakeholders[i] = name
        THEN perform_normal_stakeholder_procedure(e, name, block_header)
        ELSE [e |-> e, out |-> <<>>]

\* kind is the class of the message: "TD", "BH" or "WB".
verify_alien_message_soundness(message, kind) ==
    /\ verify_signature(message.public_key, dumps_without_sig(message),
                        message.signature)
    /\ kind = "TD" => check_meeting_pos_td_difficulty(message)
    /\ kind = "BH" => /\ check_meeting_pos_bh_difficulty(message)
                      /\ check_included_training_declarations(message)
    /\ kind = "WB" => verify_stakeholder_signatures(message)

HandledTypes ==
    {"TRANSACTION", "TRAINING_DECLARATION", "BLOCK_HEADER", "STAKEHOLDER_SIGNATURE",
     "WRAPPED_BLOCK", "EMPLOYEE_ALIVE"}

\* The pool left when the employee appends a block that serves reg_trans.
PurgeOrders(e, reg_trans) ==
    Orders(remaining_transactions(e.pending_transactions, reg_trans))

\* _collect_messages, lines 232-240: the signature is of a header the employee is
\* Roy for, and with it the book holds STAKEHOLDERS_NUM - 1 signatures.
RoyTriggered(e, name, ss) ==
    LET is_roy == am_i_roy_stakeholder(e, name, ss.block_header)
        book == add_signature_to_book(e.stakeholder_signatures_book, ss, is_roy)
    IN  /\ is_roy
        /\ get_signatures_num(book, ss.block_header.id_s, get_id(ss.block_header))
              >= STAKEHOLDERS_NUM - 1

\* A test that lets a wrapped block for the index of the tip through.
is_behind_tip(e, wrapped_block) ==
    wrapped_block.block_header.block_index < get_latest_block(e.blockchain).index

\* _collect_messages, lines 249-252: the wrapped block is not ahead of the tip.
is_stale(e, wrapped_block) ==
    wrapped_block.block_header.block_index <= get_latest_block(e.blockchain).index

\* One turn of the loop of _collect_messages: recv_message has been received.
collect_message(e, name, recv_message, now, order) ==
    LET content == recv_message.content
        type == recv_message.msg_type
    IN  CASE type = "TRANSACTION" ->
               [e |-> [e EXCEPT !.pending_transactions = Append(@, content)],
                out |-> <<>>]
          [] type = "TRAINING_DECLARATION" ->
               IF verify_alien_message_soundness(content, "TD")
               THEN [e |-> [e EXCEPT !.training_declarations_book =
                               add_training_declaration_to_book(@, content)],
                     out |-> <<>>]
               ELSE [e |-> e, out |-> <<>>]
          [] type = "BLOCK_HEADER" ->
               IF verify_alien_message_soundness(content, "BH")
               THEN check_type_of_stakeholder(e, name, content)
               ELSE [e |-> e, out |-> <<>>]
          [] type = "STAKEHOLDER_SIGNATURE" ->
               LET is_roy == am_i_roy_stakeholder(e, name, content.block_header)
                   e1 == [e EXCEPT !.stakeholder_signatures_book =
                             add_signature_to_book(@, content, is_roy)]
               IN  IF RoyTriggered(e, name, content)
                   THEN perform_roy_stakeholder_procedure(e1, name,
                            content.block_header, now, order)
                   ELSE [e |-> e1, out |-> <<>>]
          [] type = "WRAPPED_BLOCK" ->
               IF is_stale(e, content)
               THEN [e |-> e, out |-> <<>>]
               ELSE IF verify_alien_message_soundness(content, "WB")
               THEN [e |-> [e EXCEPT
                        !.protocol_restart_flag = TRUE,
                        !.stakeholder_signatures_book =
                            ss_book_close(@, content.id_s),
                        !.blockchain =
                            append_fitted_wrapped_block(@, content, now),
                        !.pending_transactions = order],
                     out |-> <<>>]
               ELSE [e |-> e, out |-> <<>>]
          [] type = "EMPLOYEE_ALIVE" -> [e |-> e, out |-> <<>>]
          [] OTHER -> [e |-> [e EXCEPT !.pc = "TypeError"], out |-> <<>>]

\* The transactions a block appended on recv_message serves (<<>> when it appends
\* none): the purge of the pool depends on them.
served_by(e, name, recv_message) ==
    LET content == recv_message.content
        type == recv_message.msg_type
    IN  IF type = "WRAPPED_BLOCK" THEN content.transactions
        ELSE IF type = "STAKEHOLDER_SIGNATURE" /\ RoyTriggered(e, name, content)
        THEN get_pending_transactions_and_set_employee(e, name)
        ELSE <<>>

\* Whether handling recv_message runs _remove_served_trans_from_pending_trans.
purges(e, name, recv_message) ==
    LET content == recv_message.content
        type == recv_message.msg_type
    IN  \/ /\ type = "WRAPPED_BLOCK"
           /\ ~is_stale(e, content)
           /\ verify_alien_message_soundness(content, "WB")
        \/ /\ type = "STAKEHOLDER_SIGNATURE"
           /\ RoyTriggered(e, name, content)

(***************************************************************************)
(* Employee.__init__ and Simulation._initialize_employees_blockchains: the *)
(* state of an employee when its process starts.                           *)
(***************************************************************************)
EmployeesNames == [i \in 1..EMPLOYEES_NUM |-> i]

InitEmployee ==
    [pc |-> "start",
     blockchain |->
         append_genesis_block([chain |-> <<>>, all_transactions |-> <<>>],
                              EmployeesNames),
     current_iteration |-> -1,
     training_declaration |-> None,
     training_secret |-> None,
     block_header |-> None,
     pending_transactions |-> <<>>,
     training_declarations_book |-> <<>>,
     stakeholder_signatures_book |-> <<>>,
     protocol_restart_flag |-> FALSE]

\* connection.send of the messages out, in order.
Send(name, out) == conn_e' = [conn_e EXCEPT ![name] = @ \o out]

Unchanged_net == UNCHANGED <<conn_up, transactions_num, bc, simulation_conn>>

\* A test of the round loop that lets a chain of the target length go one more
\* round.
loop_top_past_target(e, name) ==
    LET iteration == e.current_iteration + 1
        training_secret == train_one_batch(iteration)
    IN  IF get_chain_length(e.blockchain) <= TARGET_BLOCKCHAIN_LENGTH
        THEN [e |-> [e EXCEPT !.pc = "pos_td",
                              !.protocol_restart_flag = FALSE,
                              !.current_iteration = iteration,
                              !.training_secret = training_secret,
                              !.training_declaration =
                                  TrainingDeclaration(get_id_s(iteration), 0,
                                      sign_message(name, training_secret), name)],
              out |-> <<>>]
        ELSE [e |-> [e EXCEPT !.pc = "done"],
              out |-> <<Message("RESULT_LOCAL_BLOCKCHAIN", e.blockchain),
                        Message("EMPLOYEE_FINISHED", None)>>]

\* simulate(), lines 99-108 and 158-167: the test of the round loop.  While the
\* chain is short the employee trains and makes the declaration of the new round;
\* otherwise it sends its replica and EMPLOYEE_FINISHED.
loop_top(e, name) ==
    LET iteration == e.current_iteration + 1
        training_secret == train_one_batch(iteration)
    IN  IF get_chain_length(e.blockchain) < TARGET_BLOCKCHAIN_LENGTH
        THEN [e |-> [e EXCEPT !.pc = "pos_td",
                              !.protocol_restart_flag = FALSE,
                              !.current_iteration = iteration,
                              !.training_secret = training_secret,
                              !.training_declaration =
                                  TrainingDeclaration(get_id_s(iteration), 0,
                                      sign_message(name, training_secret), name)],
              out |-> <<>>]
        ELSE [e |-> [e EXCEPT !.pc = "done"],
              out |-> <<Message("RESULT_LOCAL_BLOCKCHAIN", e.blockchain),
                        Message("EMPLOYEE_FINISHED", None)>>]

\* simulate(), lines 92-108: the employee registers with the broadcaster and
\* enters the round loop.
Start(name) ==
    LET r == loop_top(emp[name], name)
    IN  /\ emp[name].pc = "start"
        /\ emp' = [emp EXCEPT ![name] = r.e]
        /\ Send(name, <<Message("EMPLOYEE_ALIVE", None)>> \o r.out)
        /\ UNCHANGED conn_b
        /\ UNCHANGED clock
        /\ Unchanged_net

\* datetime.now(): the wall clock never runs backwards, and a second that goes by
\* shows only when a step reads the clock, so clock is the last value read and a
\* step that reads it (reads being TRUE) finds any later value up to MaxClock.
Now(reads) == IF reads THEN clock..MaxClock ELSE {clock}

\* The places of simulate() where _collect_messages is draining the connection.
Draining == {"pos_td", "wait_tds", "pos_bh", "msg_loop"}

\* _collect_messages: connection.poll() is True, one message is received and
\* served.
Collect(name) ==
    LET e == emp[name]
        recv_message == Head(conn_b[name])
    IN  /\ e.pc \in Draining
        /\ conn_b[name] # <<>>
        /\ \E now \in Now(purges(e, name, recv_message)) :
           \E order \in (IF purges(e, name, recv_message)
                         THEN PurgeOrders(e, served_by(e, name, recv_message))
                         ELSE {e.pending_transactions}) :
             LET r == collect_message(e, name, recv_message, now, order)
             IN  /\ emp' = [emp EXCEPT ![name] = r.e]
                 /\ Send(name, r.out)
                 /\ clock' = now
        /\ conn_b' = [conn_b EXCEPT ![name] = Tail(@)]
        /\ Unchanged_net

\* _create_block_header: the header takes the list of the book and closes the stage.
create_block_header(e, name) ==
    LET id_s == e.training_declaration.id_s
        training_declarations ==
            get_training_declarations(e.training_declarations_book, id_s)
        block_header ==
            BlockHeader(get_id_s(e.current_iteration), 0,
                        block_calculate_hash(get_latest_block(e.blockchain)),
                        get_latest_block(e.blockchain).index + 1,
                        e.training_secret, name, training_declarations)
    IN  [e EXCEPT !.block_header = block_header,
                  !.training_declarations_book = td_book_close(@, id_s)]

\* A wait that is over with the first declaration in the book.
wait_for_one_declaration(e, name) ==
    IF get_training_declarations_num(e.training_declarations_book,
           e.training_declaration.id_s) < 1
    THEN [e |-> [e EXCEPT !.pc = "wait_tds"], out |-> <<>>]
    ELSE IF e.protocol_restart_flag
    THEN loop_top(e, name)
    ELSE [e |-> [create_block_header(e, name) EXCEPT !.pc = "pos_bh"], out |-> <<>>]

\* _wait_for_training_declarations, the test of its loop, and simulate(), lines
\* 131-135: with EMPLOYER_CONFIDENCE declarations in the book the employee leaves
\* the wait, and makes its header unless the restart flag is up.
wait_for_training_declarations(e, name) ==
    IF get_training_declarations_num(e.training_declarations_book,
           e.training_declaration.id_s) < EMPLOYER_CONFIDENCE
    THEN [e |-> [e EXCEPT !.pc = "wait_tds"], out |-> <<>>]
    ELSE IF e.protocol_restart_flag
    THEN loop_top(e, name)
    ELSE [e |-> [create_block_header(e, name) EXCEPT !.pc = "pos_bh"], out |-> <<>>]

\* A probe that signs and sends the declaration without booking it.
PosTdUnbooked(name) ==
    LET e == emp[name]
        td == sign(e.training_declaration, name)
        e1 == [e EXCEPT !.training_declaration = td]
        r == IF e.protocol_restart_flag THEN loop_top(e, name)
             ELSE LET w == wait_for_training_declarations(e1, name)
                  IN  [e |-> w.e,
                       out |-> <<Message("TRAINING_DECLARATION", td)>> \o w.out]
    IN  /\ e.pc = "pos_td"
        /\ conn_b[name] = <<>>
        /\ e.protocol_restart_flag
              \/ check_meeting_pos_td_difficulty(e.training_declaration)
        /\ emp' = [emp EXCEPT ![name] = r.e]
        /\ Send(name, r.out)
        /\ UNCHANGED conn_b
        /\ UNCHANGED clock
        /\ Unchanged_net

\* _perform_pos_waiting_mechanism(training_declaration), lines 434-455, and
\* simulate(), lines 112-130: poll() is False; either the round is abandoned or the
\* probe that meets the difficulty signs the declaration, books it and sends it,
\* and the employee goes on to wait for declarations.  A probe that fails only
\* moves the timestamp and is no step.
PosTd(name) ==
    LET e == emp[name]
        td == sign(e.training_declaration, name)
        e1 == [e EXCEPT !.training_declaration = td,
                        !.training_declarations_book =
                            add_training_declaration_to_book(@, td)]
        r == IF e.protocol_restart_flag THEN loop_top(e, name)
             ELSE LET w == wait_for_training_declarations(e1, name)
                  IN  [e |-> w.e,
                       out |-> <<Message("TRAINING_DECLARATION", td)>> \o w.out]
    IN  /\ e.pc = "pos_td"
        /\ conn_b[name] = <<>>
        /\ e.protocol_restart_flag
              \/ check_meeting_pos_td_difficulty(e.training_declaration)
        /\ emp' = [emp EXCEPT ![name] = r.e]
        /\ Send(name, r.out)
        /\ UNCHANGED conn_b
        /\ UNCHANGED clock
        /\ Unchanged_net

\* _wait_for_training_declarations: poll() is False, the drain is over and the
\* book holds EMPLOYER_CONFIDENCE declarations.
WaitTdsDone(name) ==
    LET e == emp[name]
        r == wait_for_training_declarations(e, name)
    IN  /\ e.pc = "wait_tds"
        /\ conn_b[name] = <<>>
        /\ r.e.pc # "wait_tds"
        /\ emp' = [emp EXCEPT ![name] = r.e]
        /\ Send(name, r.out)
        /\ UNCHANGED conn_b
        /\ UNCHANGED clock
        /\ Unchanged_net

\* A probe of the header that does not test the restart flag.
PosBhUnchecked(name) ==
    LET e == emp[name]
    IN  /\ e.pc = "pos_bh"
        /\ conn_b[name] = <<>>
        /\ \E now \in Now(TRUE) :
              LET probe == [e.block_header EXCEPT !.timestamp = now]
                  block_header == sign(probe, name)
                  r == check_type_of_stakeholder(
                           [e EXCEPT !.block_header = block_header],
                           name, block_header)
              IN  /\ check_meeting_pos_bh_difficulty(probe)
                  /\ emp' = [emp EXCEPT ![name] = [r.e EXCEPT !.pc = "msg_loop"]]
                  /\ Send(name, <<Message("BLOCK_HEADER", block_header)>> \o r.out)
                  /\ clock' = now
        /\ UNCHANGED conn_b
        /\ Unchanged_net

\* A phase 2 that checks its own role, and sends its signature, before it sends
\* the header.
PosBhSignsFirst(name) ==
    LET e == emp[name]
    IN  /\ e.pc = "pos_bh"
        /\ conn_b[name] = <<>>
        /\ IF e.protocol_restart_flag
           THEN LET r == loop_top(e, name)
                IN  /\ emp' = [emp EXCEPT ![name] = r.e]
                    /\ Send(name, r.out)
                    /\ UNCHANGED clock
           ELSE \E now \in Now(TRUE) :
                LET probe == [e.block_header EXCEPT !.timestamp = now]
                    block_header == sign(probe, name)
                    r == check_type_of_stakeholder(
                             [e EXCEPT !.block_header = block_header],
                             name, block_header)
                IN  /\ check_meeting_pos_bh_difficulty(probe)
                    /\ emp' = [emp EXCEPT ![name] = [r.e EXCEPT !.pc = "msg_loop"]]
                    /\ Send(name, r.out \o <<Message("BLOCK_HEADER", block_header)>>)
                    /\ clock' = now
        /\ UNCHANGED conn_b
        /\ Unchanged_net

\* _perform_pos_waiting_mechanism(block_header), lines 434-466, and simulate(),
\* lines 139-155: poll() is False; either the round is abandoned or the probe that
\* meets the difficulty (timestamp is its wall clock) signs the header, which is
\* sent and checked locally for the own role.
PosBh(name) ==
    LET e == emp[name]
    IN  /\ e.pc = "pos_bh"
        /\ conn_b[name] = <<>>
        /\ IF e.protocol_restart_flag
           THEN LET r == loop_top(e, name)
                IN  /\ emp' = [emp EXCEPT ![name] = r.e]
                    /\ Send(name, r.out)
                    /\ UNCHANGED clock
           ELSE \E now \in Now(TRUE) :
                LET probe == [e.block_header EXCEPT !.timestamp = now]
                    block_header == sign(probe, name)
                    r == check_type_of_stakeholder(
                             [e EXCEPT !.block_header = block_header],
                             name, block_header)
                IN  /\ check_meeting_pos_bh_difficulty(probe)
                    /\ emp' = [emp EXCEPT ![name] = [r.e EXCEPT !.pc = "msg_loop"]]
                    /\ Send(name, <<Message("BLOCK_HEADER", block_header)>> \o r.out)
                    /\ clock' = now
        /\ UNCHANGED conn_b
        /\ Unchanged_net

\* simulate(), lines 156-157: poll() is False and the restart flag is up.
MsgLoopExit(name) ==
    LET r == loop_top(emp[name], name)
    IN  /\ emp[name].pc = "msg_loop"
        /\ conn_b[name] = <<>>
        /\ emp[name].protocol_restart_flag
        /\ emp' = [emp EXCEPT ![name] = r.e]
        /\ Send(name, r.out)
        /\ UNCHANGED conn_b
        /\ UNCHANGED clock
        /\ Unchanged_net

(***************************************************************************)
(* src/network/users_puppeteer.py: maneuver_users                          *)
(***************************************************************************)
Maneuver ==
    /\ transactions_num < MAX_TRANSACTIONS_NUM
    /\ \E body \in Bodies :
          conn_up' = Append(conn_up,
              Message("TRANSACTION", Transaction(transactions_num + 1, body, None)))
    /\ transactions_num' = transactions_num + 1
    /\ UNCHANGED <<emp, conn_e, conn_b, bc, simulation_conn, clock>>

(***************************************************************************)
(* src/network/broadcaster.py.  The sweep of stay_tuned_for_messages polls *)
(* the employees' connections and then the users puppeteer's.  A poll that *)
(* finds no message is no step, and when a message is sent relative to the *)
(* polls of the sweep is a matter of timing: any connection that holds a   *)
(* message may be the next one the sweep serves.  Once should_stop is True *)
(* the employees' connections are empty for good and the sweep that is     *)
(* under way ends with one last poll of the users puppeteer's connection.  *)
(***************************************************************************)
InitBroadcaster ==
    [pc |-> "run", should_stop |-> FALSE, finished_employees_num |-> 0,
     result_local_blockchain_sent |-> FALSE]

\* A fan-out that excludes no connection.
broadcast_to_all(pipes, message, excluded_list) ==
    [i \in Names |-> Append(pipes[i], message)]

\* A fan-out that puts the message at the end of the first connection and ahead of
\* what waits on the others.
broadcast_out_of_order(pipes, message, excluded_list) ==
    [i \in Names |-> IF i \in excluded_list THEN pipes[i]
                      ELSE IF i = 1 THEN Append(pipes[i], message)
                      ELSE <<message>> \o pipes[i]]

\* _broadcast_message: the message goes to every connection not excluded.
broadcast_message(pipes, message, excluded_list) ==
    [i \in Names |-> IF i \in excluded_list THEN pipes[i]
                      ELSE Append(pipes[i], message)]

\* A count of the finished employees that stops the relay at the first one.
register_first_finished_employee(b) ==
    LET num == b.finished_employees_num + 1
    IN  [b EXCEPT !.finished_employees_num = num,
                  !.should_stop = IF num >= 1 THEN TRUE ELSE @]

\* _register_finished_employee
register_finished_employee(b) ==
    LET num == b.finished_employees_num + 1
    IN  [b EXCEPT !.finished_employees_num = num,
                  !.should_stop = IF num >= EMPLOYEES_NUM THEN TRUE ELSE @]

\* A relay that absorbs nothing: whatever employee connection c holds is fanned out.
relay_everything(c) ==
    /\ bc.pc = "run"
    /\ conn_e[c] # <<>>
    /\ conn_e' = [conn_e EXCEPT ![c] = Tail(@)]
    /\ conn_b' = broadcast_message(conn_b, Head(conn_e[c]), {c})
    /\ UNCHANGED <<emp, conn_up, transactions_num, bc, simulation_conn, clock>>

\* A relay that forwards every RESULT_LOCAL_BLOCKCHAIN it receives to the simulation.
relay_every_result(c) ==
    LET recv_message == Head(conn_e[c])
    IN  /\ bc.pc = "run"
        /\ conn_e[c] # <<>>
        /\ conn_e' = [conn_e EXCEPT ![c] = Tail(@)]
        /\ CASE recv_message.msg_type = "EMPLOYEE_FINISHED" ->
                 /\ bc' = register_finished_employee(bc)
                 /\ UNCHANGED <<conn_b, simulation_conn>>
             [] recv_message.msg_type = "RESULT_LOCAL_BLOCKCHAIN" ->
                 /\ bc' = [bc EXCEPT !.result_local_blockchain_sent = TRUE]
                 /\ simulation_conn' = Append(simulation_conn, recv_message)
                 /\ UNCHANGED conn_b
             [] OTHER ->
                 /\ conn_b' = broadcast_message(conn_b, recv_message, {c})
                 /\ UNCHANGED <<bc, simulation_conn>>
        /\ UNCHANGED <<emp, conn_up, transactions_num, clock>>

\* stay_tuned_for_messages, lines 58-75: a message of employee connection c.
RelayEmployee(c) ==
    LET recv_message == Head(conn_e[c])
    IN  /\ bc.pc = "run"
        /\ conn_e[c] # <<>>
        /\ conn_e' = [conn_e EXCEPT ![c] = Tail(@)]
        /\ CASE recv_message.msg_type = "EMPLOYEE_FINISHED" ->
                 /\ bc' = register_finished_employee(bc)
                 /\ UNCHANGED <<conn_b, simulation_conn>>
             [] recv_message.msg_type = "RESULT_LOCAL_BLOCKCHAIN" ->
                 /\ bc' = [bc EXCEPT !.result_local_blockchain_sent = TRUE]
                 /\ simulation_conn' =
                        IF bc.result_local_blockchain_sent = FALSE
                        THEN Append(simulation_conn, recv_message)
                        ELSE simulation_conn
                 /\ UNCHANGED conn_b
             [] OTHER ->
                 /\ conn_b' = broadcast_message(conn_b, recv_message, {c})
                 /\ UNCHANGED <<bc, simulation_conn>>
        /\ UNCHANGED <<emp, conn_up, transactions_num, clock>>

\* stay_tuned_for_messages, lines 76-78: a message of the users puppeteer; after
\* should_stop it is the last one of the last sweep.
RelayPuppeteer ==
    /\ bc.pc = "run"
    /\ conn_up # <<>>
    /\ conn_up' = Tail(conn_up)
    /\ conn_b' = broadcast_message(conn_b, Head(conn_up), {})
    /\ bc' = [bc EXCEPT !.pc = IF bc.should_stop THEN "done" ELSE @]
    /\ UNCHANGED <<emp, conn_e, transactions_num, simulation_conn, clock>>

\* stay_tuned_for_messages, line 57: the last sweep is over and should_stop is True.
RelayStop ==
    /\ bc.pc = "run"
    /\ bc.should_stop
    /\ conn_up = <<>>
    /\ bc' = [bc EXCEPT !.pc = "done"]
    /\ UNCHANGED <<emp, conn_e, conn_b, conn_up, transactions_num, simulation_conn, clock>>


(***************************************************************************)
(* The system: Simulation.run_simulation starts the broadcaster, the users *)
(* puppeteer and the employees.                                            *)
(***************************************************************************)
Init ==
    /\ emp = [n \in Names |-> InitEmployee]
    /\ conn_e = [n \in Names |-> <<>>]
    /\ conn_b = [n \in Names |-> <<>>]
    /\ conn_up = <<>>
    /\ transactions_num = 0
    /\ bc = InitBroadcaster
    /\ simulation_conn = <<>>
    /\ clock = 0

\* Employee name is inside a drain, and the message it is about to receive is
\* served without a look at the wall clock (no block is appended).
Pending(name) ==
    /\ emp[name].pc \in Draining
    /\ conn_b[name] # <<>>
    /\ ~purges(emp[name], name, Head(conn_b[name]))

(***************************************************************************)
(* The processes run in parallel.  Receiving a message inside a drain, if  *)
(* it appends no block, touches the head of the employee's own inbound     *)
(* pipe, the employee's own fields and the tail of its outbound pipe: it   *)
(* commutes with every step of every other process, and no other step of   *)
(* the employee is enabled before it.  Next therefore                      *)
(* lets such a receive of the first employee that has one run before       *)
(* anything else; every process keeps all of its own sequences of states,  *)
(* and the end of a drain (poll() is False) still races with the relay.    *)
(***************************************************************************)
Drain == \E name \in Names :
             /\ Pending(name)
             /\ \A m \in 1..(name - 1) : ~Pending(m)
             /\ Collect(name)

\* No employee has such a receive to make.
Quiescent == \A m \in Names : ~Pending(m)

\* The steps of the employees and of the relay.
Run ==
    \/ Drain
    \/ \E name \in Names : Quiescent /\ Collect(name)
    \/ \E name \in Names : Quiescent /\ Start(name)
    \/ \E name \in Names : Quiescent /\ PosTd(name)
    \/ \E name \in Names : Quiescent /\ WaitTdsDone(name)
    \/ \E name \in Names : Quiescent /\ PosBh(name)
    \/ \E name \in Names : Quiescent /\ MsgLoopExit(name)
    \/ \E c \in Names : Quiescent /\ RelayEmployee(c)
    \/ Quiescent /\ RelayStop

\* The steps of a transaction: the users puppeteer sends it, the relay fans it out.
Pay ==
    \/ Quiescent /\ Maneuver
    \/ Quiescent /\ RelayPuppeteer

Next == Run \/ Pay

Spec == Init /\ [][Next]_vars

(***************************************************************************)
(* Two parts of the behaviours of Spec, each small enough to be explored   *)
(* in full.  In SpecQuiet the users puppeteer sends nothing while the      *)
(* employees run (maneuver_users sleeps between two transactions); the     *)
(* wall clock moves.  In SpecLate the puppeteer sends, and the wall clock  *)
(* stands at MaxClock from the start, so that every timestamp is the same. *)
(***************************************************************************)
SpecQuiet == Init /\ [][Run]_vars

InitLate ==
    /\ emp = [n \in Names |-> InitEmployee]
    /\ conn_e = [n \in Names |-> <<>>]
    /\ conn_b = [n \in Names |-> <<>>]
    /\ conn_up = <<>>
    /\ transactions_num = 0
    /\ bc = InitBroadcaster
    /\ simulation_conn = <<>>
    /\ clock = MaxClock

SpecLate == InitLate /\ [][Next]_vars

(***************************************************************************)
(* A third part of the behaviours of Spec: the wall clock moves and the    *)
(* users puppeteer wakes from its sleep when one employee has appended its *)
(* first block and no other has; the relay passes the transaction on       *)
(* before any other process takes a step.                                  *)
(***************************************************************************)
\* One employee has just appended the first block of its chain, in its first
\* round, and the chain of every other employee is the genesis block.
FirstBlockAppended ==
    /\ clock = MaxClock
    /\ \E n \in Names :
          /\ get_chain_length(emp[n].blockchain) = 2
          /\ emp[n].protocol_restart_flag
          /\ emp[n].current_iteration = 0
          /\ \A m \in Names \ {n} : get_chain_length(emp[m].blockchain) = 1

NextFork ==
    \/ conn_up = <<>> /\ Run
    \/ FirstBlockAppended /\ Quiescent /\ Maneuver
    \/ Quiescent /\ RelayPuppeteer

SpecFork == Init /\ [][NextFork]_vars

(***************************************************************************)
(* The scheduling of the relay: the Broadcaster is a process of its own    *)
(* whose loop polls every connection over and over, so a step of the relay *)
(* that stays possible is taken.  SpecStillFair has it over the behaviours *)
(* in which the users puppeteer sends nothing while the employees run and  *)
(* the wall clock stands at MaxClock.                                      *)
(***************************************************************************)
Relay ==
    \/ \E c \in Names : Quiescent /\ RelayEmployee(c)
    \/ Quiescent /\ RelayPuppeteer
    \/ Quiescent /\ RelayStop

SpecStillFair == InitLate /\ [][Run]_vars /\ WF_vars(Relay)

(***************************************************************************)
(* The two books on their own: the books of one employee, to which         *)
(* declarations and signatures of any stage are added, and whose stages    *)
(* are closed, in any order (src/pos_messages/training_declarations_book.py *)
(* and src/poa_messages/stakeholder_signatures_book.py).                   *)
(***************************************************************************)
\* The declarations of the employees for the stages: _create_training_declaration,
\* signed.
TdInputs ==
    {sign(TrainingDeclaration(get_id_s(s), 0, sign_message(k, train_one_batch(s)), k), k) :
        s \in Stages, k \in Names}

\* The headers of the employees for the stages, on the genesis block: _create_block_header,
\* signed.
BhInputs ==
    {sign(BlockHeader(get_id_s(s), 0,
                      block_calculate_hash(get_latest_block(InitEmployee.blockchain)),
                      1, train_one_batch(s), k, <<>>), k) :
        s \in Stages, k \in Names}

\* The signatures of the employees over the headers: _perform_normal_stakeholder_procedure.
SsInputs ==
    {StakeholderSignature(bh, k, sign_message(k, dumps_without_sig(bh))) :
        bh \in BhInputs, k \in Names}

\* The employee whose books are exercised.
BookOwner == 1

AddTrainingDeclaration ==
    /\ \E td \in TdInputs :
          /\ get_training_declarations_num(emp[BookOwner].training_declarations_book,
                                           td.id_s) < MaxEntries
          /\ emp' = [emp EXCEPT ![BookOwner].training_declarations_book =
                         add_training_declaration_to_book(@, td)]
    /\ UNCHANGED <<conn_e, conn_b, conn_up, transactions_num, bc, simulation_conn, clock>>

\* close(id_s) of a stage the book has (it raises KeyError for any other).
CloseTrainingDeclarations ==
    /\ \E id_s \in DOMAIN emp[BookOwner].training_declarations_book :
          emp' = [emp EXCEPT ![BookOwner].training_declarations_book =
                     td_book_close(@, id_s)]
    /\ UNCHANGED <<conn_e, conn_b, conn_up, transactions_num, bc, simulation_conn, clock>>

\* roy is what both callers pass: whether the owner of the book is Roy for the header.
AddSignature ==
    /\ \E ss \in SsInputs :
          /\ get_signatures_num(emp[BookOwner].stakeholder_signatures_book,
                                ss.block_header.id_s, get_id(ss.block_header))
                 < MaxEntries
          /\ emp' = [emp EXCEPT ![BookOwner].stakeholder_signatures_book =
                         add_signature_to_book(@, ss,
                             am_i_roy_stakeholder(emp[BookOwner], BookOwner,
                                                  ss.block_header))]
    /\ UNCHANGED <<conn_e, conn_b, conn_up, transactions_num, bc, simulation_conn, clock>>

\* close(id_s) of any stage, one the book has or not.
CloseSignatures ==
    /\ \E id_s \in Stages :
          emp' = [emp EXCEPT ![BookOwner].stakeholder_signatures_book =
                     ss_book_close(@, id_s)]
    /\ UNCHANGED <<conn_e, conn_b, conn_up, transactions_num, bc, simulation_conn, clock>>

NextTdBook == AddTrainingDeclaration \/ CloseTrainingDeclarations

NextSsBook == AddSignature \/ CloseSignatures

SpecTdBook == Init /\ [][NextTdBook]_vars

SpecSsBook == Init /\ [][NextSsBook]_vars

\* Every stage of the declarations book is closed with MaxEntries declarations,
\* as _create_block_header leaves a stage.
TdBookFull ==
    \A s \in Stages :
        /\ get_id_s(s) \in DOMAIN emp[BookOwner].training_declarations_book
        /\ ~emp[BookOwner].training_declarations_book[get_id_s(s)].open
        /\ get_training_declarations_num(emp[BookOwner].training_declarations_book,
                                         get_id_s(s)) = MaxEntries

\* The signatures book has not been written to.
SsBookNew == emp[BookOwner].stakeholder_signatures_book = <<>>

\* The two books of one employee: the declarations book is written first, and the
\* signatures book from the empty declarations book and from every full one.
NextBooks ==
    \/ SsBookNew /\ AddTrainingDeclaration
    \/ SsBookNew /\ CloseTrainingDeclarations
    \/ (emp[BookOwner].training_declarations_book = <<>> \/ TdBookFull)
          /\ AddSignature
    \/ (emp[BookOwner].training_declarations_book = <<>> \/ TdBookFull)
          /\ CloseSignatures

SpecBooks == Init /\ [][NextBooks]_vars

(***************************************************************************)
(* The PoS waiting mechanism with its failing probes                       *)
(* (_perform_pos_waiting_mechanism, src/employee/employee.py, lines        *)
(* 428-474): one employee, the Prober, is followed second by second from   *)
(* the start of its process to the sending of its header, the other        *)
(* employee having sent its declaration.  A message is constructed with    *)
(* the second of its construction as timestamp; a probe that fails stamps  *)
(* the message with the second it reads and the next turn of the loop      *)
(* probes again.                                                           *)
(***************************************************************************)
Prober == 1

\* The state in which every other employee has started and sent the declaration
\* of its first round.
InitProbe ==
    /\ emp = [n \in Names |->
                 IF n = Prober THEN InitEmployee
                 ELSE LET e == loop_top(InitEmployee, n).e
                          td == sign(e.training_declaration, n)
                      IN  wait_for_training_declarations(
                              [e EXCEPT !.training_declaration = td,
                                        !.training_declarations_book =
                                            add_training_declaration_to_book(@, td)],
                              n).e]
    /\ conn_e = [n \in Names |->
                    IF n = Prober THEN <<>>
                    ELSE <<Message("EMPLOYEE_ALIVE", None),
                           Message("TRAINING_DECLARATION",
                                   sign(loop_top(InitEmployee, n).e.training_declaration,
                                        n))>>]
    /\ conn_b = [n \in Names |-> <<>>]
    /\ conn_up = <<>>
    /\ transactions_num = 0
    /\ bc = InitBroadcaster
    /\ simulation_conn = <<>>
    /\ clock = 0

\* datetime.now() over the seconds the probes are followed for.
Second == clock..MaxSeconds

\* The header of an employee that has just made it is stamped with the second of
\* its construction (HashSignSerialPoTMessage.__init__).
constructed(e, now) ==
    IF e.pc = "pos_bh" THEN [e EXCEPT !.block_header = set_timestamp(@, now)] ELSE e

\* simulate(), lines 92-108: the employee starts and constructs its declaration.
ProbeStart(name) ==
    LET r == loop_top(emp[name], name)
    IN  /\ emp[name].pc = "start"
        /\ \E now \in Second :
              /\ emp' = [emp EXCEPT ![name] =
                             [r.e EXCEPT !.training_declaration = set_timestamp(@, now)]]
              /\ clock' = now
        /\ Send(name, <<Message("EMPLOYEE_ALIVE", None)>> \o r.out)
        /\ UNCHANGED conn_b
        /\ Unchanged_net

\* One turn of the loop of _perform_pos_waiting_mechanism(training_declaration),
\* poll() being False: the probe meets the difficulty, and the declaration is
\* signed, booked and sent (simulate(), lines 112-130), or it fails, and the
\* declaration is stamped anew.
ProbeTd(name) ==
    LET e == emp[name]
        td == sign(e.training_declaration, name)
        e1 == [e EXCEPT !.training_declaration = td,
                        !.training_declarations_book =
                            add_training_declaration_to_book(@, td)]
        w == wait_for_training_declarations(e1, name)
    IN  /\ e.pc = "pos_td"
        /\ conn_b[name] = <<>>
        /\ ~e.protocol_restart_flag
        /\ \E now \in Second :
              /\ clock' = now
              /\ IF check_meeting_pos_td_difficulty(e.training_declaration)
                 THEN /\ emp' = [emp EXCEPT ![name] = constructed(w.e, now)]
                      /\ Send(name, <<Message("TRAINING_DECLARATION", td)>> \o w.out)
                 ELSE /\ emp' = [emp EXCEPT ![name].training_declaration =
                                     set_timestamp(@, now)]
                      /\ UNCHANGED conn_e
        /\ UNCHANGED conn_b
        /\ Unchanged_net

\* _wait_for_training_declarations and _create_block_header: the book holds
\* EMPLOYER_CONFIDENCE declarations and the header is constructed.
ProbeWaitTdsDone(name) ==
    LET e == emp[name]
        r == wait_for_training_declarations(e, name)
    IN  /\ e.pc = "wait_tds"
        /\ conn_b[name] = <<>>
        /\ r.e.pc # "wait_tds"
        /\ \E now \in Second :
              /\ emp' = [emp EXCEPT ![name] = constructed(r.e, now)]
              /\ clock' = now
        /\ Send(name, r.out)
        /\ UNCHANGED conn_b
        /\ Unchanged_net

\* One turn of the loop of _perform_pos_waiting_mechanism(block_header), poll()
\* being False: the probe meets the difficulty, and the header is signed, sent and
\* checked for the own role (simulate(), lines 139-155), or it fails, and the
\* header is stamped anew.
ProbeBh(name) ==
    LET e == emp[name]
        block_header == sign(e.block_header, name)
        r == check_type_of_stakeholder([e EXCEPT !.block_header = block_header],
                                       name, block_header)
    IN  /\ e.pc = "pos_bh"
        /\ conn_b[name] = <<>>
        /\ ~e.protocol_restart_flag
        /\ IF check_meeting_pos_bh_difficulty(e.block_header)
           THEN /\ emp' = [emp EXCEPT ![name] = [r.e EXCEPT !.pc = "msg_loop"]]
                /\ Send(name, <<Message("BLOCK_HEADER", block_header)>> \o r.out)
                /\ UNCHANGED clock
           ELSE \E now \in Second :
                /\ emp' = [emp EXCEPT ![name].block_header = set_timestamp(@, now)]
                /\ clock' = now
                /\ UNCHANGED conn_e
        /\ UNCHANGED conn_b
        /\ Unchanged_net

NextProbe ==
    \/ ProbeStart(Prober)
    \/ ProbeTd(Prober)
    \/ ProbeWaitTdsDone(Prober)
    \/ ProbeBh(Prober)
    \/ Collect(Prober)
    \/ \E c \in Names : RelayEmployee(c)

SpecProbe == InitProbe /\ [][NextProbe]_vars

(***************************************************************************)
(* The check of a wrapped block that comes in from the network: the        *)
(* employee that receives runs _collect_messages on wrapped blocks drawn   *)
(* from those the classes can build.                                       *)
(***************************************************************************)
\* The employee that receives the wrapped blocks.
Receiver == 1

\* _create_wrapped_block and sign: a header, no transactions, and the signatures
\* of a list of the book, none or one, signed by the employee that wraps.  The
\* signature object carries a header of its own.
WbInputs ==
    {sign(WrappedBlock(bh.id_s, k, k, <<>>, sigs, bh), k) :
        bh \in BhInputs, k \in Names,
        sigs \in {<<>>} \cup {<<ss>> : ss \in SsInputs}}

\* The receiver is in its first round; the other employees have not started.
InitWb ==
    /\ emp = [n \in Names |->
                 IF n = Receiver THEN loop_top(InitEmployee, n).e ELSE InitEmployee]
    /\ conn_e = [n \in Names |-> <<>>]
    /\ conn_b = [n \in Names |-> <<>>]
    /\ conn_up = <<>>
    /\ transactions_num = 0
    /\ bc = InitBroadcaster
    /\ simulation_conn = <<>>
    /\ clock = 0

\* _broadcast_message: a wrapped block is put on the connection of the receiver.
RecvWrappedBlock ==
    /\ conn_b[Receiver] = <<>>
    /\ \E wb \in WbInputs :
          conn_b' = [conn_b EXCEPT ![Receiver] =
                        Append(@, Message("WRAPPED_BLOCK", wb))]
    /\ UNCHANGED <<emp, conn_e, conn_up, transactions_num, bc, simulation_conn, clock>>

NextWb == RecvWrappedBlock \/ Collect(Receiver)

SpecWb == InitWb /\ [][NextWb]_vars

(***************************************************************************)
(* sign() as a function of the message and the key: the message under test *)
(* is held as the one message on the connection of the employee that signs.*)
(***************************************************************************)
\* The employee whose connection holds the message.
Signer == 1

\* The declarations, headers and wrapped blocks the classes build, as they are
\* before sign() (signature None) and after it.
SignInputs ==
    LET signed ==
            {Message("TRAINING_DECLARATION", m) : m \in TdInputs}
            \cup {Message("BLOCK_HEADER", m) : m \in BhInputs}
            \cup {Message("WRAPPED_BLOCK", m) : m \in WbInputs}
    IN  signed \cup {Message(x.msg_type, dumps_without_sig(x.content)) : x \in signed}

InitSign ==
    /\ emp = [n \in Names |-> InitEmployee]
    /\ conn_e \in {[n \in Names |-> IF n = Signer THEN <<x>> ELSE <<>>] :
                      x \in SignInputs}
    /\ conn_b = [n \in Names |-> <<>>]
    /\ conn_up = <<>>
    /\ transactions_num = 0
    /\ bc = InitBroadcaster
    /\ simulation_conn = <<>>
    /\ clock = 0

\* The message under test.
Held == conn_e[Signer][1].content

\* m.sign(private_key), on a message that has been signed once at most.
Sign(private_key) ==
    /\ IF Held.signature = None THEN TRUE ELSE Held.signature.over.signature = None
    /\ conn_e' = [conn_e EXCEPT ![Signer] =
                     <<Message(conn_e[Signer][1].msg_type, sign(Held, private_key))>>]
    /\ UNCHANGED <<emp, conn_b, conn_up, transactions_num, bc, simulation_conn, clock>>

NextSign == \E private_key \in Names : Sign(private_key)

SpecSign == InitSign /\ [][NextSign]_vars

(***************************************************************************)
(* _verify_alien_message_soundness on what comes in from the network: the  *)
(* receiver runs _collect_messages on declarations, headers and wrapped    *)
(* blocks that are sound and on ones that fail each of its checks.         *)
(***************************************************************************)
\* A second at which neither a declaration nor a header meets its difficulty.
UnluckySecond == 3

\* The signature of m replaced by one of the other key over the same bytes.
forged(m) ==
    [m EXCEPT !.signature =
        sign_message(CHOOSE k \in Names : k # m.public_key, dumps_without_sig(m))]

\* Declarations: sound, with a signature of another key, and signed at a second
\* that does not meet the difficulty.
AlienTds ==
    TdInputs
    \cup {forged(td) : td \in TdInputs}
    \cup {sign(set_timestamp(dumps_without_sig(td), UnluckySecond), td.public_key) :
             td \in TdInputs}

\* Headers: sound, with the declaration of their maker embedded; the same with a
\* signature of another key; signed at a second that does not meet the
\* difficulty; and with an embedded declaration of another stage, whose
\* commitment is not to the header's training secret.
AlienBhs ==
    LET made(td, s) ==
            sign(BlockHeader(get_id_s(s), 0,
                     block_calculate_hash(get_latest_block(InitEmployee.blockchain)),
                     1, train_one_batch(s), td.public_key, <<td>>), td.public_key)
        sound == {made(q[1], q[2]) :
                     q \in {r \in TdInputs \X Stages : get_id_s(r[2]) = r[1].id_s}}
    IN  sound
        \cup {forged(bh) : bh \in sound}
        \cup {sign(set_timestamp(dumps_without_sig(bh), UnluckySecond), bh.public_key) :
                 bh \in sound}
        \cup {made(q[1], q[2]) :
                 q \in {r \in TdInputs \X Stages : get_id_s(r[2]) # r[1].id_s}}

\* Wrapped blocks of the headers of the first stage: with the signature of the
\* other employee over the header, with a signature object whose signature is not
\* over the header it carries, and with a signature of another key on the block.
AlienWbs ==
    LET heads == {bh \in BhInputs : bh.id_s = get_id_s(0)}
        good(bh, k) == StakeholderSignature(bh, k, sign_message(k, dumps_without_sig(bh)))
        bad(bh, k) == StakeholderSignature(bh, k, sign_message(k, bh))
        wrap(bh, k, ss) == sign(WrappedBlock(bh.id_s, k, k, <<>>, <<ss>>, bh), k)
        sound == {wrap(bh, k, good(bh, j)) : bh \in heads, k \in Names, j \in Names}
    IN  sound
        \cup {wrap(bh, k, bad(bh, j)) : bh \in heads, k \in Names, j \in Names}
        \cup {forged(wb) : wb \in sound}

AlienInputs ==
    {Message("TRAINING_DECLARATION", m) : m \in AlienTds}
    \cup {Message("BLOCK_HEADER", m) : m \in AlienBhs}
    \cup {Message("WRAPPED_BLOCK", m) : m \in AlienWbs}

\* _broadcast_message: a message is put on the connection of the receiver.  The
\* books and the connection of the receiver are kept within MaxEntries.
RecvAlien ==
    /\ conn_b[Receiver] = <<>>
    /\ Len(conn_e[Receiver]) < MaxEntries
    /\ \A id_s \in DOMAIN emp[Receiver].training_declarations_book :
          get_training_declarations_num(emp[Receiver].training_declarations_book,
                                        id_s) < MaxEntries
    /\ \E x \in AlienInputs : conn_b' = [conn_b EXCEPT ![Receiver] = Append(@, x)]
    /\ UNCHANGED <<emp, conn_e, conn_up, transactions_num, bc, simulation_conn, clock>>

NextAlien == RecvAlien \/ Collect(Receiver)

SpecAlien == InitWb /\ [][NextAlien]_vars

(***************************************************************************)
(* _perform_roy_stakeholder_procedure in two steps: _create_wrapped_block, *)
(* line 575, and the rest, lines 576-591.  The wrapped block line 575      *)
(* builds is held in the field wrapped_block until the second step.        *)
(***************************************************************************)
\* The pools of pending transactions: the transactions of the users, as they
\* come from the relay, each once, in some order.
PoolInputs ==
    UNION {{q \in [1..k -> {Transaction(id, body, None) :
                               id \in 1..MaxEntries, body \in Bodies}] :
               \A i \in 1..k : \A j \in 1..k : i # j => q[i].id # q[j].id} :
           k \in 0..MaxEntries}

\* The employee that wraps: the one with a signature on its connection.
Wrapper == CHOOSE n \in Names : conn_b[n] # <<>>

\* An employee in its first round with a pool, and on its connection the
\* signature that completes a header it is Roy for.
InitWrap ==
    /\ \E w \in Names : \E ss \in SsInputs : \E pool \in PoolInputs :
          /\ emp = [n \in Names |->
                       (IF n = w
                        THEN [loop_top(InitEmployee, n).e EXCEPT
                                 !.pc = "msg_loop",
                                 !.pending_transactions = pool]
                        ELSE InitEmployee) @@ [wrapped_block |-> None]]
          /\ conn_b = [n \in Names |->
                          IF n = w THEN <<Message("STAKEHOLDER_SIGNATURE", ss)>>
                          ELSE <<>>]
          /\ RoyTriggered(emp[w], w, ss)
    /\ conn_e = [n \in Names |-> <<>>]
    /\ conn_up = <<>>
    /\ transactions_num = 0
    /\ bc = InitBroadcaster
    /\ simulation_conn = <<>>
    /\ clock = 0

\* _collect_messages, lines 227-240, and line 575: the signature is booked and
\* the wrapped block is built.
CreateWrapped ==
    LET w == Wrapper
        ss == Head(conn_b[w]).content
        is_roy == am_i_roy_stakeholder(emp[w], w, ss.block_header)
        e1 == [emp[w] EXCEPT !.stakeholder_signatures_book =
                  add_signature_to_book(@, ss, is_roy)]
    IN  /\ emp[w].pc = "msg_loop"
        /\ emp[w].wrapped_block = None
        /\ emp' = [emp EXCEPT ![w] =
                      [e1 EXCEPT !.wrapped_block =
                                     create_wrapped_block(e1, w, ss.block_header),
                                 !.pending_transactions =
                                     pending_after_set_employee(e1, w)]]
        /\ UNCHANGED <<conn_e, conn_b, conn_up, transactions_num, bc,
                       simulation_conn, clock>>

\* Lines 576-591: the wrapped block is signed and sent, appended, the pool is
\* purged and the restart flag raised.
FinishRoy ==
    LET w == Wrapper
        wrapped_block == sign(emp[w].wrapped_block, w)
    IN  /\ emp[w].pc = "msg_loop"
        /\ emp[w].wrapped_block # None
        /\ \E now \in Now(TRUE) :
           \E order \in PurgeOrders(emp[w], wrapped_block.transactions) :
              /\ emp' = [emp EXCEPT ![w] =
                            [remove_served_trans_from_pending_trans(
                                 [emp[w] EXCEPT !.blockchain =
                                     append_fitted_wrapped_block(@, wrapped_block,
                                                                 now)],
                                 wrapped_block.transactions, order)
                             EXCEPT !.protocol_restart_flag = TRUE,
                                    !.pc = "done"]]
              /\ clock' = now
        /\ Send(w, <<Message("WRAPPED_BLOCK", wrapped_block)>>)
        /\ UNCHANGED <<conn_b, conn_up, transactions_num, bc, simulation_conn>>

NextWrap == CreateWrapped \/ FinishRoy

SpecWrap == InitWrap /\ [][NextWrap]_vars

(***************************************************************************)
(* The difficulty test on the bytes of a hash.  A digest is a sequence of  *)
(* bytes; the test is applied to digests of MaxHashBytes bytes at most,    *)
(* made of the bytes of ByteInputs, under the coinstakes of                *)
(* CoinstakeInputs.  A coinstake 2^k is written k, so that math.log2 of it *)
(* is k.                                                                   *)
(***************************************************************************)
MaxHashBytes == 2

ByteInputs == {0, 1, 7, 8, 15, 16, 128, 255}

\* 2^256, TD_COINSTAKE and BH_COINSTAKE.
FullCoinstake == 256

CoinstakeInputs == {FullCoinstake, TD_COINSTAKE, BH_COINSTAKE}

HashInputs == UNION {[1..k -> ByteInputs] : k \in 0..MaxHashBytes}

Pow2(k) == IF k = 0 THEN 1 ELSE IF k = 1 THEN 2 ELSE IF k = 2 THEN 4
           ELSE IF k = 3 THEN 8 ELSE IF k = 4 THEN 16 ELSE IF k = 5 THEN 32
           ELSE IF k = 6 THEN 64 ELSE 128

\* format(byte, "08b"): the eight bits of the byte, the most significant first.
format_08b(byte) == [i \in 1..8 |-> (byte \div Pow2(8 - i)) % 2]

\* "".join(format(byte, "08b") for byte in bytes_obj)
bit_string(bytes_obj) ==
    [k \in 1..(8 * Len(bytes_obj)) |->
        format_08b(bytes_obj[((k - 1) \div 8) + 1])[((k - 1) % 8) + 1]]

\* bit_string.lstrip("0")
RECURSIVE lstrip_zeros(_)
lstrip_zeros(bits) ==
    IF bits = <<>> THEN <<>>
    ELSE IF Head(bits) = 0 THEN lstrip_zeros(Tail(bits))
    ELSE bits

\* A count over bit strings whose bytes are written with the least significant
\* bit first.
count_trailing_zero_bits(bytes_obj) ==
    LET bits == [k \in 1..(8 * Len(bytes_obj)) |->
                    format_08b(bytes_obj[((k - 1) \div 8) + 1])[8 - ((k - 1) % 8)]]
    IN  Len(bits) - Len(lstrip_zeros(bits))

\* count_leading_zeros, on the bytes.
count_leading_zero_bits(bytes_obj) ==
    LET bits == bit_string(bytes_obj)
    IN  Len(bits) - Len(lstrip_zeros(bits))

\* check_meeting_pos_td_difficulty and check_meeting_pos_bh_difficulty of a
\* message with the hash h and the coinstake.
meets_td_difficulty(h, coinstake) ==
    count_leading_zero_bits(h) >= pos_td_difficulty(coinstake)

meets_bh_difficulty(h, coinstake) ==
    count_leading_zero_bits(h) >= pos_bh_difficulty(coinstake)

\* The PoS message under test is held as the one message on the connection of
\* the prober, by its hash and its coinstake; once checked, zeros is the count
\* of count_leading_zeros and meets the answer of the test.
InitBits ==
    /\ emp = [n \in Names |-> InitEmployee]
    /\ conn_e \in {[n \in Names |->
                       IF n = Prober
                       THEN <<Message(t, [hash |-> h, coinstake |-> c,
                                          checked |-> FALSE, zeros |-> 0,
                                          meets |-> FALSE])>>
                       ELSE <<>>] :
                      t \in {"TRAINING_DECLARATION", "BLOCK_HEADER"},
                      h \in HashInputs, c \in CoinstakeInputs}
    /\ conn_b = [n \in Names |-> <<>>]
    /\ conn_up = <<>>
    /\ transactions_num = 0
    /\ bc = InitBroadcaster
    /\ simulation_conn = <<>>
    /\ clock = 0

Probed == conn_e[Prober][1]

CheckTdDifficulty ==
    /\ Probed.msg_type = "TRAINING_DECLARATION"
    /\ ~Probed.content.checked
    /\ conn_e' = [conn_e EXCEPT ![Prober] =
                     <<Message(Probed.msg_type,
                               [Probed.content EXCEPT
                                   !.checked = TRUE,
                                   !.zeros = count_leading_zero_bits(Probed.content.hash),
                                   !.meets = meets_td_difficulty(Probed.content.hash,
                                                 Probed.content.coinstake)])>>]
    /\ UNCHANGED <<emp, conn_b, conn_up, transactions_num, bc, simulation_conn, clock>>

CheckBhDifficulty ==
    /\ Probed.msg_type = "BLOCK_HEADER"
    /\ ~Probed.content.checked
    /\ conn_e' = [conn_e EXCEPT ![Prober] =
                     <<Message(Probed.msg_type,
                               [Probed.content EXCEPT
                                   !.checked = TRUE,
                                   !.zeros = count_leading_zero_bits(Probed.content.hash),
                                   !.meets = meets_bh_difficulty(Probed.content.hash,
                                                 Probed.content.coinstake)])>>]
    /\ UNCHANGED <<emp, conn_b, conn_up, transactions_num, bc, simulation_conn, clock>>

NextBits == CheckTdDifficulty \/ CheckBhDifficulty

SpecBits == InitBits /\ [][NextBits]_vars

(***************************************************************************)
(* The relay between the users puppeteer and the employees: transactions   *)
(* wait on the connection of the puppeteer (MAX_TRANSACTIONS_NUM is 100 in *)
(* constants.py; MaxEntries of them are taken here), the employees are in  *)
(* their first round, each with its declaration sent or not, and receive   *)
(* what the relay passes on.                                               *)
(***************************************************************************)
InitRelay ==
    /\ emp = [n \in Names |-> loop_top(InitEmployee, n).e]
    /\ conn_e \in [Names -> {<<>>} \cup {<<Message("TRAINING_DECLARATION", td)>> :
                                            td \in TdInputs}]
    /\ \A n \in Names : \A i \in 1..Len(conn_e[n]) :
          /\ conn_e[n][i].content.public_key = n
          /\ conn_e[n][i].content.id_s = get_id_s(0)
    /\ conn_b = [n \in Names |-> <<>>]
    /\ conn_up \in {[i \in 1..Len(pool) |-> Message("TRANSACTION", pool[i])] :
                       pool \in PoolInputs}
    /\ transactions_num = Len(conn_up)
    /\ bc = InitBroadcaster
    /\ simulation_conn = <<>>
    /\ clock = 0

NextRelay ==
    \/ \E c \in Names : RelayEmployee(c)
    \/ RelayPuppeteer
    \/ \E n \in Names : Collect(n)

SpecRelay == InitRelay /\ [][NextRelay]_vars

(***************************************************************************)
(* Properties.                                                             *)
(***************************************************************************)
\* The local chain of node n, genesis block first.
chain(n) == emp[n].blockchain.chain

\* The positions of the blocks of its chain that node n wrapped itself (the Roy
\* procedure pays the coinbase to the node that runs it).
own_wrapped(n) == {i \in 2..Len(chain(n)) : chain(n)[i].coinbase_transaction.receiver = n}

\* A message is on its way to the relay or to a node that is still running.
InFlight ==
    \/ conn_up # <<>>
    \/ \E n \in Names : conn_e[n] # <<>>
    \/ \E n \in Names : conn_b[n] # <<>> /\ emp[n].pc # "done"

\* C1: every node leaves its round loop with a chain of TARGET_BLOCKCHAIN_LENGTH
\* blocks and sends EMPLOYEE_FINISHED; no node waits forever.  Stated for finite
\* runs: as long as some node has not finished, a message is in flight or some
\* step can be taken.
C1_NoNodeWaitsForever ==
    \/ \A n \in Names : emp[n].pc = "done"
    \/ InFlight
    \/ ENABLED Next

\* C2: for any two nodes and any index present in both local chains, the two
\* blocks at that index have the same hash.
C2_ReplicaAgreement ==
    \A a \in Names : \A b \in Names :
        \A i \in 1..Len(chain(a)) :
            i <= Len(chain(b)) => chain(a)[i].hash = chain(b)[i].hash

\* C3: in every local chain every block but the first holds the hash of the block
\* before it as previous_hash, and the index of that block plus one as index.
C3_ChainLinked ==
    \A n \in Names : \A i \in 2..Len(chain(n)) :
        /\ chain(n)[i].previous_hash = chain(n)[i - 1].hash
        /\ chain(n)[i].index = chain(n)[i - 1].index + 1

\* A node has appended a block whose header names another parent than the block
\* it was appended to (the fork warning), and a node has appended a block it
\* wrapped itself.
C3_Witness ==
    /\ \E n \in Names : \E i \in 2..Len(chain(n)) :
          /\ chain(n)[i].coinbase_transaction.receiver # n
          /\ chain(n)[i].block_header.parent_block_hash # chain(n)[i - 1].hash
    /\ \E n \in Names : own_wrapped(n) # {}

\* Node n receives a message in this step: only a receive shortens its pipe.
Receives(n) == Len(conn_b'[n]) < Len(conn_b[n])

\* C4: a step in which a node receives a WRAPPED_BLOCK whose header's block_index
\* is not above the index of the node's tip leaves the node's chain, signatures
\* book, pending pool and restart flag as they were.
C4_StaleDropped ==
    [][\A n \in Names :
          (/\ Receives(n)
           /\ Head(conn_b[n]).msg_type = "WRAPPED_BLOCK"
           /\ Head(conn_b[n]).content.block_header.block_index
                  <= get_latest_block(emp[n].blockchain).index)
          => /\ emp'[n].blockchain = emp[n].blockchain
             /\ emp'[n].stakeholder_signatures_book =
                    emp[n].stakeholder_signatures_book
             /\ emp'[n].pending_transactions = emp[n].pending_transactions
             /\ emp'[n].protocol_restart_flag = emp[n].protocol_restart_flag
             /\ emp'[n].pc = emp[n].pc]_vars

\* A node in the middle of a round (restart flag down, a transaction pending, a
\* signature booked) is about to receive a wrapped block for the index of its tip.
C4_Witness ==
    \E n \in Names :
        /\ emp[n].pc \in Draining
        /\ conn_b[n] # <<>>
        /\ Head(conn_b[n]).msg_type = "WRAPPED_BLOCK"
        /\ Head(conn_b[n]).content.block_header.block_index
               = get_latest_block(emp[n].blockchain).index
        /\ emp[n].protocol_restart_flag = FALSE
        /\ emp[n].pending_transactions # <<>>
        /\ emp[n].stakeholder_signatures_book # <<>>

C6_RoyClosesStage ==
    \A n \in Names :
        /\ \A i \in own_wrapped(n) :
              ~ss_book_is_open(emp[n].stakeholder_signatures_book,
                               chain(n)[i].block_header.id_s)
        /\ \A i \in own_wrapped(n) : \A j \in own_wrapped(n) :
              chain(n)[i].block_header.id_s = chain(n)[j].block_header.id_s
                  => i = j

\* The signatures book of node n.
ss_book(n) == emp[n].stakeholder_signatures_book

C8_LockStep ==
    \A n \in Names :
        emp[n].pc # "start" =>
            Len(chain(n)) - 1 \in {emp[n].current_iteration,
                                   emp[n].current_iteration + 1}

\* The relay takes the message at the head of employee connection c in this step.
TakesFrom(c) == conn_e[c] # <<>> /\ conn_e'[c] = Tail(conn_e[c])

\* The relay takes the message at the head of the users puppeteer's connection.
TakesFromPuppeteer == conn_up # <<>> /\ conn_up' = Tail(conn_up)

Absorbed == {"EMPLOYEE_FINISHED", "RESULT_LOCAL_BLOCKCHAIN"}

\* C9, as the relay does it: a message of node c that is not absorbed is put once
\* at the tail of the pipe of every node but c; a message of the transaction
\* generator is put once at the tail of the pipe of every node; nothing else is
\* ever put into a node's pipe, which loses messages at its head only; and when
\* the relay stops no message of a node is left unrelayed.  (The messages the
\* generator sends after that are not relayed.)
C9_RelayOnce ==
    [][/\ \A c \in Names :
             (TakesFrom(c) /\ Head(conn_e[c]).msg_type \notin Absorbed)
             => /\ conn_b'[c] = conn_b[c]
                /\ \A j \in Names \ {c} :
                       conn_b'[j] = Append(conn_b[j], Head(conn_e[c]))
       /\ TakesFromPuppeteer
             => \A j \in Names : conn_b'[j] = Append(conn_b[j], Head(conn_up))
       /\ \A j \in Names :
             \/ conn_b'[j] = conn_b[j]
             \/ conn_b[j] # <<>> /\ conn_b'[j] = Tail(conn_b[j])
             \/ \E c \in Names \ {j} :
                   /\ TakesFrom(c)
                   /\ Head(conn_e[c]).msg_type \notin Absorbed
                   /\ conn_b'[j] = Append(conn_b[j], Head(conn_e[c]))
             \/ /\ TakesFromPuppeteer
                /\ conn_b'[j] = Append(conn_b[j], Head(conn_up))
       /\ bc'.pc = "done" => \A c \in Names : conn_e'[c] = <<>>]_vars

\* The relay has stopped after it fanned out the transaction and the messages of
\* the nodes: every node holds or has served the transaction.
C9_Witness ==
    /\ bc.pc = "done"
    /\ transactions_num = MAX_TRANSACTIONS_NUM
    /\ conn_up = <<>>
    /\ \A n \in Names : Len(chain(n)) >= TARGET_BLOCKCHAIN_LENGTH

\* C9 as the spec has it: every message of a node and of the transaction
\* generator is delivered; once the relay has stopped nothing that was sent is
\* left in a pipe to the relay.
C9_AllDelivered ==
    bc.pc = "done" => conn_up = <<>> /\ \A c \in Names : conn_e[c] = <<>>

\* C10: no pipe to a node ever holds EMPLOYEE_FINISHED, RESULT_LOCAL_BLOCKCHAIN or
\* any other message outside the six kinds the node handles, and no node reaches
\* the default case of its dispatch.
C10_OnlyHandledKinds ==
    /\ \A n \in Names : \A i \in 1..Len(conn_b[n]) :
          conn_b[n][i].msg_type \in HandledTypes
    /\ \A n \in Names : emp[n].pc # "TypeError"

\* The relay has absorbed the result and the EMPLOYEE_FINISHED of one node while
\* another node is still receiving.
C10_Witness ==
    /\ bc.finished_employees_num >= 1
    /\ bc.result_local_blockchain_sent
    /\ \E n \in Names : emp[n].pc \in Draining /\ conn_b[n] # <<>>

\* The relay takes a RESULT_LOCAL_BLOCKCHAIN message from the pipe of node c.
TakesResultFrom(c) ==
    TakesFrom(c) /\ Head(conn_e[c]).msg_type = "RESULT_LOCAL_BLOCKCHAIN"

\* C11: the pipe to the simulation never holds more than one message; it changes
\* only when the relay takes the first RESULT_LOCAL_BLOCKCHAIN it receives, which
\* it forwards as it is, a later one being dropped; and when the relay stops the
\* pipe holds exactly one message, so that the one receive of the simulation finds it.
C11_ResultForwardedOnce ==
    [][/\ Len(simulation_conn') <= 1
       /\ simulation_conn' # simulation_conn
             => \E c \in Names :
                   /\ TakesResultFrom(c)
                   /\ ~bc.result_local_blockchain_sent
                   /\ simulation_conn = <<>>
                   /\ simulation_conn' = <<Head(conn_e[c])>>
       /\ \A c \in Names :
             TakesResultFrom(c)
             => /\ bc'.result_local_blockchain_sent
                /\ simulation_conn = <<>> => simulation_conn' = <<Head(conn_e[c])>>
                /\ simulation_conn # <<>> => simulation_conn' = simulation_conn
       /\ bc'.pc = "done" => Len(simulation_conn') = 1]_vars

\* The relay has stopped, and it received the replica of every node: the one it
\* forwarded and another, different one that it dropped.
C11_Witness ==
    /\ bc.pc = "done"
    /\ Len(simulation_conn) = 1
    /\ \A n \in Names : emp[n].pc = "done" /\ conn_e[n] = <<>>
    /\ \E n \in Names : simulation_conn[1].content # emp[n].blockchain

\* The number of EMPLOYEE_FINISHED messages of node n the relay has not received yet.
FinishedInPipe(n) ==
    Cardinality({i \in 1..Len(conn_e[n]) : conn_e[n][i].msg_type = "EMPLOYEE_FINISHED"})

\* The nodes whose EMPLOYEE_FINISHED the relay has received.
FinishedReceived == {n \in Names : emp[n].pc = "done" /\ FinishedInPipe(n) = 0}

\* The counter of the relay is the number of nodes whose EMPLOYEE_FINISHED it has
\* received, and the relay is told to stop, and stops, only when that is every node.
C12_Counted ==
    /\ \A n \in Names : FinishedInPipe(n) <= (IF emp[n].pc = "done" THEN 1 ELSE 0)
    /\ bc.finished_employees_num = Cardinality(FinishedReceived)
    /\ bc.should_stop <=> FinishedReceived = Names
    /\ bc.pc = "done" => bc.should_stop

\* Node n sends EMPLOYEE_FINISHED in the step exactly when it leaves its round
\* loop, as the last message it sends.
C12_SentOnLeaving ==
    \A n \in Names :
        LET sends == /\ Len(conn_e'[n]) > Len(conn_e[n])
                     /\ \E i \in (Len(conn_e[n]) + 1)..Len(conn_e'[n]) :
                            conn_e'[n][i].msg_type = "EMPLOYEE_FINISHED"
        IN  /\ sends <=> (emp[n].pc # "done" /\ emp'[n].pc = "done")
            /\ sends => conn_e'[n][Len(conn_e'[n])].msg_type = "EMPLOYEE_FINISHED"
            /\ emp[n].pc = "done" => emp'[n].pc = "done"

\* C12: the relay stops only after it has received EMPLOYEE_FINISHED from every
\* node, its counter being the number of nodes it has received the message from
\* and every node sending the message once, when it finishes; and once every node
\* has sent it, the relay stops.
C12_StopsWhenAllFinished ==
    /\ []C12_Counted
    /\ [][C12_SentOnLeaving]_vars
    /\ (\A n \in Names : emp[n].pc = "done") ~> (bc.pc = "done")

\* The relay has stopped on the count of every node, one of which finished with
\* a longer chain than the target.
C12_Witness ==
    /\ bc.pc = "done"
    /\ bc.should_stop
    /\ bc.finished_employees_num = EMPLOYEES_NUM
    /\ \E n \in Names : Len(chain(n)) > TARGET_BLOCKCHAIN_LENGTH

\* The declarations book of the employee whose books are exercised.
td_book == emp[BookOwner].training_declarations_book

\* C13: adding a declaration, one of the book or any other, to a closed stage of
\* the declarations book leaves the whole book as it is: the same stages, the same
\* open flags and the same lists of declarations.
C13_TdWriteLock ==
    \A td \in TdInputs :
        (td.id_s \in DOMAIN td_book /\ ~td_book[td.id_s].open)
        => add_training_declaration_to_book(td_book, td) = td_book

\* A stage of the book is closed with a declaration in it and short of another
\* one, while another stage is open.
C13_Witness ==
    /\ \E s \in DOMAIN td_book :
          /\ ~td_book[s].open
          /\ Len(td_book[s].training_declarations) = 1
    /\ \E s \in DOMAIN td_book : td_book[s].open

\* C14: adding a signature to a closed stage of the signatures book leaves the
\* whole book as it is: no signature is appended, no entry of a header is created
\* or altered, also when the signature is over a header the stage has no entry for.
C14_SsWriteLock ==
    \A ss \in SsInputs : \A roy \in BOOLEAN :
        ~ss_book_is_open(ss_book(BookOwner), ss.block_header.id_s)
        => add_signature_to_book(ss_book(BookOwner), ss, roy) = ss_book(BookOwner)

\* The messages node n sends in the step.
Emitted(n) ==
    IF /\ Len(conn_e'[n]) > Len(conn_e[n])
       /\ SubSeq(conn_e'[n], 1, Len(conn_e[n])) = conn_e[n]
    THEN {conn_e'[n][i] : i \in (Len(conn_e[n]) + 1)..Len(conn_e'[n])}
    ELSE {}

\* Message m is the PoS message held, held by the node as own before the step (the
\* one its probe hashed) and as own_after after it, with nothing but the signature
\* changed; its hash has the leading zero bits the coinstake asks for and its
\* signature is the node's over dumps_without_sig().
EmittedAsProbed(n, m, own, own_after, coinstake) ==
    /\ count_leading_zeros(calculate_hash(m)) >= 256 - coinstake
    /\ m.public_key = n
    /\ verify_signature(m.public_key, dumps_without_sig(m), m.signature)
    /\ dumps_without_sig(m) = dumps_without_sig(own)
    /\ own_after = m

\* C16: every declaration and every header a node sends meets its difficulty when
\* it is sent and carries the node's signature over dumps_without_sig(), and it is
\* the message the successful probe hashed: its timestamp, its list of declarations
\* and every other field that enters the hash are as they were at the probe.
C16_EmittedMeetsDifficulty ==
    [][\A n \in Names : \A m \in Emitted(n) :
          /\ m.msg_type = "TRAINING_DECLARATION"
                => EmittedAsProbed(n, m.content, emp[n].training_declaration,
                                   emp'[n].training_declaration, TD_COINSTAKE)
          /\ m.msg_type = "BLOCK_HEADER"
                => EmittedAsProbed(n, m.content, emp[n].block_header,
                                   emp'[n].block_header, BH_COINSTAKE)]_vars

\* The node has sent its declaration, stamped with second 4, and its header,
\* stamped with second 5 after the seconds at which no header meets the difficulty.
C16_Witness ==
    /\ emp[Prober].pc = "msg_loop"
    /\ emp[Prober].training_declaration.timestamp = 4
    /\ emp[Prober].training_declaration.signature # None
    /\ emp[Prober].block_header.timestamp = 5
    /\ emp[Prober].block_header.signature # None
    /\ \E i \in 1..Len(conn_b[2]) : conn_b[2][i].content = emp[Prober].block_header

\* The set of names follow_the_coin draws from on the chain of node n.
eligibility(n) ==
    {emp[n].blockchain.all_transactions[i].employee_name :
        i \in 1..Len(emp[n].blockchain.all_transactions)}

\* The headers the nodes hold, their own or received.
HeadersHeld ==
    {emp[n].block_header : n \in {k \in Names : emp[k].block_header # None}}
    \cup UNION {{conn_b[n][i].content :
                    i \in {j \in 1..Len(conn_b[n]) :
                              conn_b[n][j].msg_type = "BLOCK_HEADER"}} : n \in Names}

\* Any two nodes with the same set of names draw the same list, Roy included, for
\* the hash of any header, whatever their lists of transactions.
C15_SameDraw ==
    \A a \in Names : \A b \in Names : \A h \in HeadersHeld :
        eligibility(a) = eligibility(b)
        => follow_the_coin(emp[a].blockchain, calculate_hash(h))
              = follow_the_coin(emp[b].blockchain, calculate_hash(h))

\* A node that draws the committee of a header it receives and finds no Normal
\* role for itself is left as it was, and sends nothing.
C15_DrawLeavesState ==
    \A n \in Names :
        (/\ Receives(n)
         /\ Head(conn_b[n]).msg_type = "BLOCK_HEADER"
         /\ \A i \in 1..(STAKEHOLDERS_NUM - 1) :
               follow_the_coin(emp[n].blockchain,
                               calculate_hash(Head(conn_b[n]).content))[i] # n)
        => emp'[n] = emp[n] /\ conn_e'[n] = conn_e[n]

HeadersInFlight ==
    UNION {{conn_e[n][i].content :
               i \in {j \in 1..Len(conn_e[n]) :
                         conn_e[n][j].msg_type = "BLOCK_HEADER"}}
           \cup {conn_b[n][i].content :
                    i \in {j \in 1..Len(conn_b[n]) :
                              conn_b[n][j].msg_type = "BLOCK_HEADER"}} : n \in Names}

\* C17: for every header a node has sent and every declaration in it, the
\* commitment of the declaration is a signature of the header's training secret
\* under the declaration's public key, so the header passes
\* check_included_training_declarations at whoever receives it.
C17_HeaderCommitments ==
    \A h \in HeadersInFlight :
        /\ \A i \in 1..Len(h.training_declarations) :
              verify_signature(h.training_declarations[i].public_key,
                               h.training_secret,
                               h.training_declarations[i].training_secret_commitment)
        /\ check_included_training_declarations(h)

\* A header of the second round, with the declaration of another node in it, is
\* on its way to a node that did not make it.
C17_Witness ==
    \E n \in Names : \E i \in 1..Len(conn_b[n]) :
        /\ conn_b[n][i].msg_type = "BLOCK_HEADER"
        /\ conn_b[n][i].content.public_key # n
        /\ conn_b[n][i].content.id_s = get_id_s(1)
        /\ \E k \in 1..Len(conn_b[n][i].content.training_declarations) :
              conn_b[n][i].content.training_declarations[k].public_key
                  # conn_b[n][i].content.public_key

\* Every signature enclosed in block b is a signature of the header of b under
\* the public key of the signature.
SignedOverOwnHeader(b) ==
    \A i \in 1..Len(b.stakeholders_signatures) :
        verify_signature(b.stakeholders_signatures[i].public_key,
                         dumps_without_sig(b.block_header),
                         b.stakeholders_signatures[i].signature)

\* C18: in every block a node has appended from a wrapped block, every enclosed
\* stakeholder signature is a valid signature, under its public key, of the
\* header of that block itself; a wrapped block with an enclosed signature that
\* is not one is appended by nobody.
C18_SignaturesOverOwnHeader ==
    \A n \in Names : \A i \in 1..Len(emp[n].blockchain.chain) :
        emp[n].blockchain.chain[i].block_header # None
        => SignedOverOwnHeader(emp[n].blockchain.chain[i])

\* C19: after m.sign(private_key), whatever signature m held before, the new
\* signature verifies under the public key of the pair over
\* m.dumps_without_sig().
C19_SignVerifyRoundTrip ==
    [][\A private_key \in Names :
          Sign(private_key)
          => verify_signature(private_key, dumps_without_sig(Held'),
                              Held'.signature)]_vars

\* What append_genesis_block leaves of an empty chain.
GenesisOnly(blockchain) ==
    /\ Len(blockchain.chain) = 1
    /\ blockchain.chain[1].index = 0
    /\ blockchain.chain[1].previous_hash = [zero |-> TRUE]
    /\ blockchain.chain[1].block_header = None
    /\ blockchain.chain[1].coinbase_transaction = None
    /\ blockchain.chain[1].stakeholders_signatures = <<>>
    /\ Len(blockchain.all_transactions) = EMPLOYEES_NUM
    /\ \A name \in Names :
          Cardinality({i \in 1..Len(blockchain.all_transactions) :
                          blockchain.all_transactions[i].employee_name = name}) = 1

\* C20: after append_genesis_block on an empty chain the chain has length 1, its
\* block has index 0, previous_hash b"0", no header, no coinbase and no
\* stakeholder signatures, and all_transactions holds one transaction for each
\* employee name, EMPLOYEES_NUM in all.
C20_Genesis ==
    /\ GenesisOnly(append_genesis_block([chain |-> <<>>, all_transactions |-> <<>>],
                                        EmployeesNames))
    /\ \A n \in Names : emp[n].pc = "start" => GenesisOnly(emp[n].blockchain)

\* An employee that has not started holds the chain as the genesis left it, while
\* another has started and sent its declaration.
C20_Witness ==
    \E n \in Names : \E m \in Names :
        /\ emp[n].pc = "start"
        /\ emp[n].blockchain.chain[1].index = 0
        /\ emp[m].pc # "start"
        /\ emp[m].training_declaration # None

\* Declaration td is in the list the book keeps for the stage of td.
Booked(book, td) ==
    /\ td.id_s \in DOMAIN book
    /\ \E i \in 1..Len(book[td.id_s].training_declarations) :
          book[td.id_s].training_declarations[i] = td

\* C21: whenever a node sends a TRAINING_DECLARATION, that declaration is in the
\* node's own book under its id_s, where the wait for EMPLOYER_CONFIDENCE
\* declarations counts it.
C21_SelfInsertBeforeBroadcast ==
    [][\A n \in Names : \A m \in Emitted(n) :
          m.msg_type = "TRAINING_DECLARATION"
          => /\ Booked(emp'[n].training_declarations_book, m.content)
             /\ get_training_declarations_num(emp'[n].training_declarations_book,
                                              m.content.id_s) >= 1]_vars

\* A declaration of the second round is on its way to the broadcaster and is in
\* the book of the node that sent it.
C21_Witness ==
    \E n \in Names : \E i \in 1..Len(conn_e[n]) :
        /\ conn_e[n][i].msg_type = "TRAINING_DECLARATION"
        /\ conn_e[n][i].content.id_s = get_id_s(1)
        /\ Booked(emp[n].training_declarations_book, conn_e[n][i].content)

\* Node n takes a wrapped block that is ahead of its tip and passes the check.
AcceptsWrappedBlock(n) ==
    /\ Receives(n)
    /\ Head(conn_b[n]).msg_type = "WRAPPED_BLOCK"
    /\ Head(conn_b[n]).content.block_header.block_index
          > get_latest_block(emp[n].blockchain).index
    /\ verify_alien_message_soundness(Head(conn_b[n]).content, "WB")

\* Node n takes the signature that completes a header it is Roy for.
ClosesAsRoy(n) ==
    /\ Receives(n)
    /\ Head(conn_b[n]).msg_type = "STAKEHOLDER_SIGNATURE"
    /\ RoyTriggered(emp[n], n, Head(conn_b[n]).content)

\* C22: the restart flag of a node goes from false to true only in a step in
\* which the node appends a block to its chain, on a verified wrapped block ahead
\* of its tip or in its own Roy procedure; no other handler raises it.
C22_FlagRaisedWithAppend ==
    [][\A n \in Names :
          (~emp[n].protocol_restart_flag /\ emp'[n].protocol_restart_flag)
          => /\ Len(emp'[n].blockchain.chain) = Len(emp[n].blockchain.chain) + 1
             /\ AcceptsWrappedBlock(n) \/ ClosesAsRoy(n)]_vars

\* One node has closed the round as Roy, its wrapped block sent, and the other has
\* taken that block; both have the flag up and a chain one block longer.
C22_Witness ==
    \E n \in Names : \E m \in Names :
        /\ n # m
        /\ emp[n].protocol_restart_flag
        /\ emp[m].protocol_restart_flag
        /\ Len(emp[n].blockchain.chain) = 2
        /\ Len(emp[m].blockchain.chain) = 2
        /\ get_latest_block(emp[n].blockchain).block_header.public_key
              = get_latest_block(emp[m].blockchain).block_header.public_key

\* is_open of the signatures book: a stage the book does not have counts as open.
SsStageOpen(book, id_s) == IF id_s \in DOMAIN book THEN book[id_s].open ELSE TRUE

\* The block at the end of the chain of n after the step carries wrapped block wb
\* on the tip n had before the step.
AppendedOnTip(n, wb) ==
    LET tip == get_latest_block(emp[n].blockchain)
        new == get_latest_block(emp'[n].blockchain)
    IN  /\ Len(emp'[n].blockchain.chain) = Len(emp[n].blockchain.chain) + 1
        /\ SubSeq(emp'[n].blockchain.chain, 1, Len(emp[n].blockchain.chain))
              = emp[n].blockchain.chain
        /\ new.index = tip.index + 1
        /\ new.previous_hash = tip.hash
        /\ new.block_header = wb.block_header
        /\ new.coinbase_transaction = wb.coinbase_transaction
        /\ new.transactions = wb.transactions
        /\ new.stakeholders_signatures = wb.stakeholders_signatures

\* The pool of n after the step is the pool before it without the transactions
\* that wb serves.
ServedLeavePool(n, wb) ==
    {emp'[n].pending_transactions[i] : i \in 1..Len(emp'[n].pending_transactions)}
        = remaining_transactions(emp[n].pending_transactions, wb.transactions)

ClosedTdStages(e) ==
    {id_s \in DOMAIN e.training_declarations_book :
        ~e.training_declarations_book[id_s].open}

\* C24: from a state in which its restart flag is up, a node sends no
\* TRAINING_DECLARATION and no BLOCK_HEADER, makes no header and closes no stage
\* of its declarations book; the step it takes outside _collect_messages is the
\* test of the round loop, which ends the node or starts phase 1 again.
C24_CooperativeCancellation ==
    [][\A n \in Names :
          emp[n].protocol_restart_flag
          => /\ \A m \in Emitted(n) :
                   m.msg_type \notin {"TRAINING_DECLARATION", "BLOCK_HEADER"}
             /\ emp'[n].block_header = emp[n].block_header
             /\ ClosedTdStages(emp'[n]) = ClosedTdStages(emp[n])
             /\ (emp'[n] # emp[n] /\ ~Receives(n))
                   => /\ emp'[n] = loop_top(emp[n], n).e
                      /\ emp'[n].pc \in {"pos_td", "done"}]_vars

\* A node has its header made and not yet sent when its restart flag is up.
C24_Witness ==
    \E n \in Names :
        /\ emp[n].protocol_restart_flag
        /\ emp[n].pc = "pos_bh"
        /\ emp[n].block_header # None
        /\ emp[n].block_header.id_s = get_id_s(emp[n].current_iteration)

\* Header h is made on the tip of employee e: the index after it, its hash as parent.
HeaderOnTip(h, e) ==
    /\ h.block_index = get_latest_block(e.blockchain).index + 1
    /\ h.parent_block_hash = block_calculate_hash(get_latest_block(e.blockchain))
    /\ h.parent_block_hash = get_latest_block(e.blockchain).hash

\* Header h embeds EMPLOYER_CONFIDENCE declarations or more, all of its own stage,
\* the declaration of the round of employee e among them.
HeaderDeclares(h, e) ==
    /\ Len(h.training_declarations) >= EMPLOYER_CONFIDENCE
    /\ \A i \in 1..Len(h.training_declarations) :
          h.training_declarations[i].id_s = h.id_s
    /\ e.training_declaration.id_s = get_id_s(e.current_iteration)
    /\ \E i \in 1..Len(h.training_declarations) :
          h.training_declarations[i] = e.training_declaration

\* C25: every header a node makes, and every header it sends, embeds at least
\* EMPLOYER_CONFIDENCE declarations, all with the id_s of the header and one of
\* them the node's own declaration of the round; its block_index is the index of
\* the node's tip plus one and its parent_block_hash the hash of that tip.
C25_HeaderContents ==
    [][\A n \in Names :
          /\ (emp'[n].pc = "pos_bh" /\ emp[n].pc # "pos_bh")
                => /\ HeaderOnTip(emp'[n].block_header, emp[n])
                   /\ HeaderDeclares(emp'[n].block_header, emp'[n])
          /\ \A m \in Emitted(n) :
                m.msg_type = "BLOCK_HEADER"
                => /\ HeaderOnTip(m.content, emp[n])
                   /\ HeaderDeclares(m.content, emp[n])]_vars

\* A header of the second round, made on a tip that is not the genesis block, is
\* on its way to the broadcaster.
C25_Witness ==
    \E n \in Names : \E i \in 1..Len(conn_e[n]) :
        /\ conn_e[n][i].msg_type = "BLOCK_HEADER"
        /\ conn_e[n][i].content.block_index = 2
        /\ conn_e[n][i].content.public_key = n
        /\ Len(conn_e[n][i].content.training_declarations) >= EMPLOYER_CONFIDENCE

\* The stages of the signatures book of e that are closed.
ClosedSsStages(e) ==
    {id_s \in DOMAIN e.stakeholder_signatures_book :
        ~e.stakeholder_signatures_book[id_s].open}

\* In this step node n makes its header for stage id_s, with the list the book
\* holds for the stage.
MakesHeaderFor(n, id_s) ==
    /\ emp[n].pc # "pos_bh"
    /\ emp'[n].pc = "pos_bh"
    /\ emp'[n].block_header.public_key = n
    /\ emp'[n].block_header.id_s = id_s
    /\ emp'[n].block_header.training_declarations
          = emp'[n].training_declarations_book[id_s].training_declarations

\* The header node n sends is the one it probed and signed: the bytes the hash of
\* the probe is taken over are those the signature is over and those sent, and the
\* list of declarations in them is the list of the closed stage of the book.
SentAsProbed(n, h) ==
    /\ h = emp'[n].block_header
    /\ dumps_without_sig(h) = set_timestamp(emp[n].block_header, h.timestamp)
    /\ calculate_hash(h) = calculate_hash(set_timestamp(emp[n].block_header, h.timestamp))
    /\ h.signature = sign_message(n, dumps_without_sig(h))
    /\ h.id_s \in ClosedTdStages(emp[n])
    /\ h.training_declarations
          = emp[n].training_declarations_book[h.id_s].training_declarations

\* C26: a stage of the declarations book of a node is closed only in the step in
\* which the node makes its own header for the stage; from then on the list of the
\* stage, which the header shares, does not change, so the header that is sent has
\* the hash it was probed and signed with; a closed stage of either book stays
\* closed.
C26_ClosedStages ==
    [][\A n \in Names :
          /\ \A id_s \in ClosedTdStages(emp'[n]) \ ClosedTdStages(emp[n]) :
                MakesHeaderFor(n, id_s)
          /\ \A id_s \in ClosedTdStages(emp[n]) :
                /\ id_s \in ClosedTdStages(emp'[n])
                /\ emp'[n].training_declarations_book[id_s].training_declarations
                      = emp[n].training_declarations_book[id_s].training_declarations
          /\ ClosedSsStages(emp[n]) \subseteq ClosedSsStages(emp'[n])
          /\ \A m \in Emitted(n) :
                m.msg_type = "BLOCK_HEADER" => SentAsProbed(n, m.content)]_vars

\* A node holds closed stages in both its books, receives a signature of a closed
\* stage, and has sent a header of its second round.
C26_Witness ==
    \E n \in Names :
        /\ ClosedTdStages(emp[n]) = {get_id_s(0), get_id_s(1)}
        /\ ClosedSsStages(emp[n]) # {}
        /\ conn_b[n] # <<>>
        /\ Head(conn_b[n]).msg_type = "STAKEHOLDER_SIGNATURE"
        /\ Head(conn_b[n]).content.block_header.id_s \in ClosedSsStages(emp[n])

\* Wrapped block wb encloses the list the signatures book holds for its header,
\* under the header's own stage: STAKEHOLDERS_NUM - 1 signatures or more, each a
\* signature of that header.
EnclosesBookList(book, wb) ==
    /\ wb.stakeholders_signatures
          = get_signatures_for_block_header(book, wb.block_header.id_s,
                                            get_id(wb.block_header))
    /\ Len(wb.stakeholders_signatures) >= STAKEHOLDERS_NUM - 1
    /\ \A i \in 1..Len(wb.stakeholders_signatures) :
          /\ wb.stakeholders_signatures[i].block_header = wb.block_header
          /\ verify_signature(wb.stakeholders_signatures[i].public_key,
                              dumps_without_sig(wb.block_header),
                              wb.stakeholders_signatures[i].signature)

\* C27: every wrapped block a Roy node sends encloses exactly the signatures its
\* book holds for (block_header.id_s, id(block_header)) of the header it wraps, at
\* least STAKEHOLDERS_NUM - 1 of them and all over that header, also when the stage
\* of the node's model is not the id_s of the header.
C27_WrappedBlockSignatures ==
    [][\A n \in Names : \A m \in Emitted(n) :
          m.msg_type = "WRAPPED_BLOCK"
          => EnclosesBookList(emp'[n].stakeholder_signatures_book, m.content)]_vars

\* The class of a message of one of the three types the check is run on.
KindOf(msg_type) ==
    CASE msg_type = "TRAINING_DECLARATION" -> "TD"
      [] msg_type = "BLOCK_HEADER" -> "BH"
      [] OTHER -> "WB"

\* Message content of class kind fails a check: its signature is not valid, it
\* does not meet its difficulty, a commitment of an embedded declaration is not to
\* the header's training secret, or an enclosed stakeholder signature is not valid.
Unsound(content, kind) ==
    \/ ~verify_signature(content.public_key, dumps_without_sig(content),
                         content.signature)
    \/ /\ kind = "TD"
       /\ count_leading_zeros(calculate_hash(content)) < pos_td_difficulty(TD_COINSTAKE)
    \/ /\ kind = "BH"
       /\ \/ count_leading_zeros(calculate_hash(content))
                < pos_bh_difficulty(BH_COINSTAKE)
          \/ \E i \in 1..Len(content.training_declarations) :
                ~verify_signature(content.training_declarations[i].public_key,
                                  content.training_secret,
                                  content.training_declarations[i].training_secret_commitment)
    \/ /\ kind = "WB"
       /\ \E i \in 1..Len(content.stakeholders_signatures) :
             ~verify_signature(content.stakeholders_signatures[i].public_key,
                               dumps_without_sig(content.stakeholders_signatures[i].block_header),
                               content.stakeholders_signatures[i].signature)

\* Node n takes a declaration, a header or a wrapped block.
TakesAlien(n) ==
    /\ Receives(n)
    /\ Head(conn_b[n]).msg_type
          \in {"TRAINING_DECLARATION", "BLOCK_HEADER", "WRAPPED_BLOCK"}

\* C28: the check returns false on a declaration, a header or a wrapped block
\* exactly when one of these fails, and the node that receives such a message
\* keeps its chain, both books, its pool and its restart flag as they were and
\* sends nothing.
C28_RejectionLeavesState ==
    [][\A n \in Names :
          TakesAlien(n)
          => LET content == Head(conn_b[n]).content
                 kind == KindOf(Head(conn_b[n]).msg_type)
             IN  /\ Unsound(content, kind)
                       <=> ~verify_alien_message_soundness(content, kind)
                 /\ Unsound(content, kind)
                       => /\ emp'[n] = emp[n]
                          /\ conn_e'[n] = conn_e[n]]_vars

\* The receiver, with a block appended and a declaration in its book, is about to
\* take a header that embeds a declaration of another stage.
C28_Witness ==
    /\ conn_b[Receiver] # <<>>
    /\ Head(conn_b[Receiver]).msg_type = "BLOCK_HEADER"
    /\ verify_signature(Head(conn_b[Receiver]).content.public_key,
                        dumps_without_sig(Head(conn_b[Receiver]).content),
                        Head(conn_b[Receiver]).content.signature)
    /\ Unsound(Head(conn_b[Receiver]).content, "BH")
    /\ Len(emp[Receiver].blockchain.chain) = 2
    /\ DOMAIN emp[Receiver].training_declarations_book # {}

\* The committee node n draws for header h.
committee(n, h) == follow_the_coin(emp[n].blockchain, calculate_hash(h))

\* Node n is a Normal member of the committee it draws for h.
IsNormal(n, h) == \E i \in 1..(STAKEHOLDERS_NUM - 1) : committee(n, h)[i] = n

\* For every header held, every node draws STAKEHOLDERS_NUM pairwise distinct
\* employee names; one node is Roy and STAKEHOLDERS_NUM - 1 others are Normal.
CommitteeShape ==
    \A h \in HeadersHeld :
        /\ \A n \in Names :
              /\ Len(committee(n, h)) = STAKEHOLDERS_NUM
              /\ \A i \in 1..STAKEHOLDERS_NUM : committee(n, h)[i] \in Names
              /\ \A i \in 1..STAKEHOLDERS_NUM : \A j \in 1..STAKEHOLDERS_NUM :
                    i # j => committee(n, h)[i] # committee(n, h)[j]
        /\ Cardinality({n \in Names : am_i_roy_stakeholder(emp[n], n, h)}) = 1
        /\ Cardinality({n \in Names : IsNormal(n, h)}) = STAKEHOLDERS_NUM - 1
        /\ \A n \in Names : ~(IsNormal(n, h) /\ am_i_roy_stakeholder(emp[n], n, h))

\* The signatures of signer over the header that maker made for stage id_s, among
\* the messages of queue q.
SignaturesIn(q, signer, maker, id_s) ==
    {i \in 1..Len(q) :
        /\ q[i].msg_type = "STAKEHOLDER_SIGNATURE"
        /\ q[i].content.public_key = signer
        /\ q[i].content.block_header.public_key = maker
        /\ q[i].content.block_header.id_s = id_s}

\* Node n holds, sent and not yet relayed, a signature of its own over the header
\* of maker for stage id_s.
HasSent(n, maker, id_s) == SignaturesIn(conn_e[n], n, maker, id_s) # {}

\* A node that sends a STAKEHOLDER_SIGNATURE sends one, signs it itself, is a
\* Normal member of the committee of the header and is not its Roy.
SignsAsNormal ==
    \A n \in Names : \A m \in Emitted(n) :
        m.msg_type = "STAKEHOLDER_SIGNATURE"
        => /\ m.content.public_key = n
           /\ IsNormal(n, m.content.block_header)
           /\ ~am_i_roy_stakeholder(emp[n], n, m.content.block_header)
           /\ \A o \in Emitted(n) : o.msg_type = "STAKEHOLDER_SIGNATURE" => o = m

\* No node has two signatures of its own over one header waiting to be relayed,
\* and the signatures over one header that wait come from STAKEHOLDERS_NUM - 1
\* nodes at most.
SignsOnce ==
    \A maker \in Names : \A id_s \in {get_id_s(s) : s \in Stages} :
        /\ \A n \in Names :
              Cardinality(SignaturesIn(conn_e[n], n, maker, id_s)) <= 1
        /\ Cardinality({n \in Names : HasSent(n, maker, id_s)})
              <= STAKEHOLDERS_NUM - 1

\* Once the signature of a node over a header has been relayed, the node never
\* sends a signature over that header again.
NeverSignsAgain ==
    \A n \in Names : \A maker \in Names : \A id_s \in {get_id_s(s) : s \in Stages} :
        [](HasSent(n, maker, id_s)
              => [](~HasSent(n, maker, id_s) => []~HasSent(n, maker, id_s)))

EligibilityIsFull == \A n \in Names : eligibility(n) = Names

\* Any two nodes draw the same committee for the hash of any header held.
SameCommittee ==
    \A a \in Names : \A b \in Names : \A h \in HeadersHeld :
        follow_the_coin(emp[a].blockchain, calculate_hash(h))
           = follow_the_coin(emp[b].blockchain, calculate_hash(h))

\* C30: in every state after genesis, at every node, the eligibility set of
\* follow_the_coin is the full set of the employee names whatever blocks have been
\* appended, so any two nodes draw the same committee for the same header even
\* when their chains differ in length or content.
C30_FullEligibility == EligibilityIsFull /\ SameCommittee

\* Two nodes hold chains of different length, the longer with a block that carries
\* a transaction of a user stamped by the node that wrapped it, while a header is
\* held.
C30_Witness ==
    /\ HeadersHeld # {}
    /\ \E a \in Names : \E b \in Names :
          /\ Len(emp[a].blockchain.chain) > Len(emp[b].blockchain.chain)
          /\ Len(emp[a].blockchain.all_transactions)
                > Len(emp[b].blockchain.all_transactions)
          /\ emp[a].blockchain.chain # <<>>
          /\ emp[b].blockchain.chain # <<>>

\* The ids of the transactions of the list txs.
Ids(txs) == {txs[i].id : i \in 1..Len(txs)}

\* The transactions of the block at the end of the chain of n after the step.
ServedNow(n) == get_latest_block(emp'[n].blockchain).transactions

\* C31: after a node appends a wrapped block, on acceptance of another node's or
\* in its own Roy procedure, no transaction whose id is among the block's
\* transactions is in its pending pool and every pending transaction whose id is
\* not among them is still in the pool; membership is by id, so the employee_name
\* stamped on the enclosed copies does not keep a transaction in the pool.
C31_PoolPurge ==
    [][\A n \in Names :
          (AcceptsWrappedBlock(n) \/ ClosesAsRoy(n))
          => /\ Len(emp'[n].blockchain.chain) = Len(emp[n].blockchain.chain) + 1
             /\ Ids(emp'[n].pending_transactions) \cap Ids(ServedNow(n)) = {}
             /\ Ids(emp'[n].pending_transactions)
                   = Ids(emp[n].pending_transactions) \ Ids(ServedNow(n))
             /\ \A m \in Emitted(n) :
                   m.msg_type = "WRAPPED_BLOCK"
                   => m.content.transactions = ServedNow(n)]_vars

\* The pool of node n is empty and its chain has a block with a transaction
\* stamped with the name of the node that wrapped it.
PoolPurged(n) ==
    /\ emp[n].pending_transactions = <<>>
    /\ \E i \in 2..Len(emp[n].blockchain.chain) :
          /\ emp[n].blockchain.chain[i].transactions # <<>>
          /\ emp[n].blockchain.chain[i].transactions[1].employee_name \in Names

\* The last block of node n, above genesis, has no transactions while a
\* transaction is in the pool of n: the purge for the block left the pool alone.
PoolKept(n) ==
    /\ emp[n].pending_transactions # <<>>
    /\ Len(emp[n].blockchain.chain) > 1
    /\ get_latest_block(emp[n].blockchain).transactions = <<>>

\* One node has had its pool purged of the transaction of a block, and one has
\* kept a transaction through the purge for a block that does not hold it.
C31_Witness == (\E n \in Names : PoolPurged(n)) /\ (\E n \in Names : PoolKept(n))

\* The value x is None, also when x is a name.
Unset(x) == ToString(x) = ToString(None)

SentInOrder(n) ==
    IF /\ Len(conn_e'[n]) > Len(conn_e[n])
       /\ SubSeq(conn_e'[n], 1, Len(conn_e[n])) = conn_e[n]
    THEN SubSeq(conn_e'[n], Len(conn_e[n]) + 1, Len(conn_e'[n]))
    ELSE <<>>

\* Node n starts a round in the step.
StartsRound(n) == emp'[n].current_iteration # emp[n].current_iteration

\* Node n is at the test of its round loop after the step: it has started a round
\* or left the loop.
TestsLoop(n) == StartsRound(n) \/ (emp[n].pc # "done" /\ emp'[n].pc = "done")

\* A finishing message is sent by a node only when it leaves its round loop, the
\* chain replica first and EMPLOYEE_FINISHED after it, with nothing else; the node
\* that has left sends nothing more and stays as it is; and a node at the test of
\* its loop starts a round when its chain is short of the target and leaves when
\* it is not.
FinishingOrder(n) ==
    /\ (\E m \in Emitted(n) : m.msg_type \in Absorbed)
          => /\ emp[n].pc # "done" /\ emp'[n].pc = "done"
             /\ get_chain_length(emp'[n].blockchain) >= TARGET_BLOCKCHAIN_LENGTH
    /\ (emp[n].pc # "done" /\ emp'[n].pc = "done")
          => SentInOrder(n)
                = <<Message("RESULT_LOCAL_BLOCKCHAIN", emp'[n].blockchain),
                    Message("EMPLOYEE_FINISHED", None)>>
    /\ emp[n].pc = "done"
          => /\ emp'[n] = emp[n]
             /\ Len(conn_e'[n]) <= Len(conn_e[n])
    /\ TestsLoop(n)
          => (StartsRound(n)
                 <=> get_chain_length(emp'[n].blockchain) < TARGET_BLOCKCHAIN_LENGTH)

\* C33: a node sends RESULT_LOCAL_BLOCKCHAIN and then EMPLOYEE_FINISHED, each once,
\* only when its chain has TARGET_BLOCKCHAIN_LENGTH blocks or more, and sends no
\* message afterwards; a node whose chain has that length at the test of the round
\* loop starts no further round.
C33_FinishingOrder == [][\A n \in Names : FinishingOrder(n)]_vars

\* A node has left its round loop after its second round, its two finishing
\* messages relayed, while another node is still in a round.
C33_Witness ==
    \E n \in Names : \E m \in Names :
        /\ emp[n].pc = "done"
        /\ emp[n].current_iteration >= 1
        /\ conn_e[n] = <<>>
        /\ emp[m].pc \in Draining

\* Message m is a signature over a header by the node that made the header.
OwnSignature(m) ==
    /\ m.msg_type = "STAKEHOLDER_SIGNATURE"
    /\ m.content.public_key = m.content.block_header.public_key

\* Header h is among the messages of queue q from position i on.
HeaderFrom(q, i, h) ==
    \E j \in i..Len(q) : q[j].msg_type = "BLOCK_HEADER" /\ q[j].content = h

\* The node that sends a header sends it first and in the same step, with no
\* message taken from its connection, settles its own role for it: its signature
\* follows the header when it is a Normal member, and nothing follows otherwise.
RoleSettledOnSending(n) ==
    \A m \in Emitted(n) :
        m.msg_type = "BLOCK_HEADER"
        => /\ conn_b'[n] = conn_b[n]
           /\ SentInOrder(n)[1] = m
           /\ emp'[n].block_header = m.content
           /\ IF IsNormal(n, m.content)
              THEN /\ Len(SentInOrder(n)) = 2
                   /\ OwnSignature(SentInOrder(n)[2])
                   /\ SentInOrder(n)[2].content.block_header = m.content
                   /\ SentInOrder(n)[2].content.public_key = n
              ELSE Len(SentInOrder(n)) = 1

\* In no connection does a header come after the signature of its maker over it.
HeaderBeforeOwnSignature ==
    \A n \in Names :
        /\ \A i \in 1..Len(conn_e[n]) :
              OwnSignature(conn_e[n][i])
              => ~HeaderFrom(conn_e[n], i, conn_e[n][i].content.block_header)
        /\ \A i \in 1..Len(conn_b[n]) :
              OwnSignature(conn_b[n][i])
              => /\ ~HeaderFrom(conn_b[n], i, conn_b[n][i].content.block_header)
                 /\ ~HeaderFrom(conn_e[conn_b[n][i].content.public_key], 1,
                                conn_b[n][i].content.block_header)

StageIds == {get_id_s(s) : s \in Stages}
HeaderIds == {get_id(bh) : bh \in BhInputs}

\* The stage id_s of the declarations book is open, or not in the book yet.
TdStageOpen(book, id_s) == id_s \in DOMAIN book => book[id_s].open

\* An add to the declarations book, for a stage that is open or new, leaves the
\* stage open with one declaration more, the one added at the end of the list,
\* whether or not the list holds it already, and the counts of the other stages
\* as they are; the count of a stage that is not in the book is 0.
TdBookCounts ==
    LET book == emp[BookOwner].training_declarations_book
    IN  /\ \A id_s \in StageIds \ DOMAIN book :
              get_training_declarations_num(book, id_s) = 0
        /\ \A td \in TdInputs :
              LET added == add_training_declaration_to_book(book, td)
              IN  TdStageOpen(book, td.id_s)
                  => /\ get_training_declarations_num(added, td.id_s)
                           = get_training_declarations_num(book, td.id_s) + 1
                     /\ added[td.id_s].open
                     /\ added[td.id_s].training_declarations[
                            get_training_declarations_num(added, td.id_s)] = td
                     /\ \A id_s \in StageIds \ {td.id_s} :
                           get_training_declarations_num(added, id_s)
                              = get_training_declarations_num(book, id_s)

\* The same for the signatures book and the pairs of stage and header: an add for
\* an open or new stage counts one more for the header of the signature and
\* leaves every other count; an add for a closed stage changes no count; the
\* count of a pair that is not in the book is 0.
SsBookCounts ==
    LET book == emp[BookOwner].stakeholder_signatures_book
    IN  /\ \A id_s \in StageIds : \A id_bh \in HeaderIds :
              (id_s \notin DOMAIN book \/ id_bh \notin DOMAIN book[id_s].sh_info)
              => get_signatures_num(book, id_s, id_bh) = 0
        /\ \A ss \in SsInputs : \A roy \in BOOLEAN :
              LET added == add_signature_to_book(book, ss, roy)
                  own_s == ss.block_header.id_s
                  own_bh == get_id(ss.block_header)
                  more == IF ss_book_is_open(book, own_s) THEN 1 ELSE 0
              IN  /\ get_signatures_num(added, own_s, own_bh)
                        = get_signatures_num(book, own_s, own_bh) + more
                  /\ more = 1
                        => get_signatures_for_block_header(added, own_s, own_bh)[
                               get_signatures_num(added, own_s, own_bh)] = ss
                  /\ \A id_s \in StageIds : \A id_bh \in HeaderIds :
                        <<id_s, id_bh>> # <<own_s, own_bh>>
                        => get_signatures_num(added, id_s, id_bh)
                              = get_signatures_num(book, id_s, id_bh)

\* In a step the count of a stage, or of a header of a stage, stays or grows by
\* one, and it grows only while the stage is open or new: a close changes none.
CountsGrowByAdds ==
    /\ \A id_s \in StageIds :
          LET before == get_training_declarations_num(
                            emp[BookOwner].training_declarations_book, id_s)
              after == get_training_declarations_num(
                           emp'[BookOwner].training_declarations_book, id_s)
          IN  /\ after \in {before, before + 1}
              /\ after = before + 1
                    => TdStageOpen(emp[BookOwner].training_declarations_book, id_s)
    /\ \A id_s \in StageIds : \A id_bh \in HeaderIds :
          LET before == get_signatures_num(
                            emp[BookOwner].stakeholder_signatures_book, id_s, id_bh)
              after == get_signatures_num(
                           emp'[BookOwner].stakeholder_signatures_book, id_s, id_bh)
          IN  /\ after \in {before, before + 1}
              /\ after = before + 1
                    => ss_book_is_open(emp[BookOwner].stakeholder_signatures_book,
                                       id_s)

\* C35: for an open stage the count of the declarations book is the number of the
\* adds made for the stage, the first of which makes the stage, and the count of
\* the signatures book for a stage and a header is the number of the adds made for
\* the pair while the stage was open; an add of a declaration or signature the
\* list holds already is counted again, an add for one header leaves the count of
\* another, and the count of a key that is not in the book is 0.
C35_BookCounting ==
    /\ []TdBookCounts
    /\ []SsBookCounts
    /\ [][CountsGrowByAdds]_vars

\* The declarations book holds one declaration twice in a stage, and the
\* signatures book holds, in an open stage, one signature twice for one header and
\* one signature for another header.
C35_Witness ==
    LET tds == emp[BookOwner].training_declarations_book
        sss == emp[BookOwner].stakeholder_signatures_book
    IN  /\ \E id_s \in DOMAIN tds :
              /\ Len(tds[id_s].training_declarations) = 2
              /\ tds[id_s].training_declarations[1] = tds[id_s].training_declarations[2]
        /\ \E id_s \in DOMAIN sss :
              /\ sss[id_s].open
              /\ \E a \in DOMAIN sss[id_s].sh_info : \E b \in DOMAIN sss[id_s].sh_info :
                    /\ a # b
                    /\ Len(sss[id_s].sh_info[a].sigs) = 2
                    /\ sss[id_s].sh_info[a].sigs[1] = sss[id_s].sh_info[a].sigs[2]
                    /\ Len(sss[id_s].sh_info[b].sigs) = 1

\* The blocks of the chains of the nodes.
BlocksHeld == UNION {{chain(n)[i] : i \in 1..Len(chain(n))} : n \in Names}

\* Blocks a and b differ in index, previous_hash, timestamp or header.
DifferInHead(a, b) ==
    \/ a.index # b.index
    \/ a.previous_hash # b.previous_hash
    \/ a.timestamp # b.timestamp
    \/ a.block_header # b.block_header

\* C36: the hash input of a block is made of the string forms of its index,
\* previous_hash, timestamp, header, coinbase transaction, transactions and
\* stakeholder signatures, so two blocks that differ in index, previous_hash,
\* timestamp or header have different hash inputs, also when they hold no
\* transactions; and the stored hash of every block of a chain is calculate_hash().
C36_HashCoversFields ==
    /\ \A b \in BlocksHeld : b.hash = block_calculate_hash(b)
    /\ \A a \in BlocksHeld : \A b \in BlocksHeld :
          DifferInHead(a, b) => block_calculate_hash(a) # block_calculate_hash(b)

\* Bit k of the hash h, the bits of each byte counted from the most significant.
BitOf(h, k) == (h[((k - 1) \div 8) + 1] \div Pow2(7 - ((k - 1) % 8))) % 2

\* The number of the zero bits before the first one bit of h.
LeadingZeroBits(h) ==
    CHOOSE z \in 0..(8 * Len(h)) :
        /\ \A k \in 1..z : BitOf(h, k) = 0
        /\ z < 8 * Len(h) => BitOf(h, z + 1) = 1

\* C37: a declaration or header meets its difficulty iff its hash has at least
\* 256 - log2(coinstake) leading zero bits, the most significant bit first: none
\* for a coinstake of 2^256, which every hash meets, 4 for TD_COINSTAKE = 2^252 and
\* 5 for BH_COINSTAKE = 2^251; the count for an input of zero bytes alone is 8
\* times its length.
C37_DifficultyThreshold ==
    LET p == Probed.content
    IN  p.checked
        => /\ p.zeros = LeadingZeroBits(p.hash)
           /\ p.meets <=> (LeadingZeroBits(p.hash) >= 256 - p.coinstake)
           /\ p.coinstake = FullCoinstake => p.meets
           /\ (p.coinstake = 252 /\ p.hash # <<>>) => (p.meets <=> p.hash[1] < 16)
           /\ (p.coinstake = 251 /\ p.hash # <<>>) => (p.meets <=> p.hash[1] < 8)
           /\ TD_COINSTAKE = 252 /\ pos_td_difficulty(TD_COINSTAKE) = 4
           /\ BH_COINSTAKE = 251 /\ pos_bh_difficulty(BH_COINSTAKE) = 5
           /\ (\A i \in 1..Len(p.hash) : p.hash[i] = 0) => p.zeros = 8 * Len(p.hash)

\* A header whose hash begins with the byte 00001000 and goes on with a zero byte
\* has been checked under BH_COINSTAKE: it has 4 leading zero bits, one short.
C37_Witness ==
    /\ Probed.msg_type = "BLOCK_HEADER"
    /\ Probed.content.checked
    /\ Probed.content.coinstake = BH_COINSTAKE
    /\ Probed.content.hash = <<8, 0>>
    /\ Probed.content.zeros = 4
    /\ ~Probed.content.meets

\* C38: every block above genesis in the chain of a node has the index its header
\* was built for, index = block_header.block_index, whether the node took the
\* block from another node's wrapped block or appended it in its Roy procedure.
C38_IndexIsHeaderIndex ==
    \A n \in Names : \A i \in 2..Len(chain(n)) :
        chain(n)[i].index = chain(n)[i].block_header.block_index

\* The ids of the transactions of the blocks of the chain of n, block by block.
IdsInBlock(n, i) == Ids(chain(n)[i].transactions)

\* C39: in every state no transaction id occurs in two blocks of the chain of a
\* node, nor twice in one block, and no transaction id is in the pending pool of a
\* node and in a block of its chain at once.
C39_NoDoubleInclusion ==
    \A n \in Names :
        /\ \A i \in 2..Len(chain(n)) : \A j \in 2..Len(chain(n)) :
              i # j => IdsInBlock(n, i) \cap IdsInBlock(n, j) = {}
        /\ \A i \in 2..Len(chain(n)) :
              Cardinality(IdsInBlock(n, i)) = Len(chain(n)[i].transactions)
        /\ \A i \in 2..Len(chain(n)) :
              IdsInBlock(n, i) \cap Ids(emp[n].pending_transactions) = {}

\* The ids of the transactions node n has been sent by the relay, in the order of
\* the relay: those it has received, in its pool, and those that wait on its
\* connection.
RECURSIVE WaitingIds(_)
WaitingIds(q) ==
    IF q = <<>> THEN <<>>
    ELSE IF Head(q).msg_type = "TRANSACTION"
    THEN <<Head(q).content.id>> \o WaitingIds(Tail(q))
    ELSE WaitingIds(Tail(q))

RelayedIds(n) ==
    [i \in 1..Len(emp[n].pending_transactions) |-> emp[n].pending_transactions[i].id]
       \o WaitingIds(conn_b[n])

\* The relay takes one message in a step and the step fans it out: to every
\* employee but the sender, or to every employee when it is the puppeteer's.
FanOutInOneStep ==
    /\ \A c \in Names :
          (TakesFrom(c) /\ Head(conn_e[c]).msg_type \notin Absorbed)
          => /\ conn_b'[c] = conn_b[c]
             /\ \A n \in Names \ {c} : conn_b'[n] = Append(conn_b[n], Head(conn_e[c]))
    /\ TakesFromPuppeteer
          => \A n \in Names : conn_b'[n] = Append(conn_b[n], Head(conn_up))

====
